---- MODULE Spec2Model ----
(***************************************************************************)
(* Model of the exi-go ISO 15118-20 EXI codec: the BitStream primitive,    *)
(* the primitive codec helpers, the MessageHeader codec, per-message       *)
(* grammars and the EncodeStruct / DecodeStruct dispatcher.                *)
(*                                                                         *)
(* A Go function that takes a *BitStream and returns an error is an        *)
(* operator from a stream record to a stream record.  The record holds the *)
(* BitStream fields (data, dataSize, bytePos, bitCount, initCalled,        *)
(* flagBytePos) and the Go results of the call chain: err (the error       *)
(* returned, "ok" for nil; every operator is the identity on a stream      *)
(* whose err is set, which is Go's `if err != nil { return err }`), val    *)
(* (the value returned by the last read), and the observations trace (the  *)
(* (width, value) pairs passed to WriteBits / returned by ReadBits),       *)
(* allocs (the sizes handed to make() together with the bytes that were    *)
(* left in the input), panicked (a Go run-time panic was raised) and       *)
(* invoked (the message decoder a dispatcher handed the stream to) and     *)
(* lens (every length prefix as the stream carried it, with the bits that  *)
(* were left in the input when it had been read).                          *)
(*                                                                         *)
(* uint64 values are kept as ten base-128 digits, least significant        *)
(* first, because the varint codec works on 7-bit groups; the tenth digit  *)
(* holds bit 63 only.                                                      *)
(***************************************************************************)
EXTENDS Integers, Sequences, FiniteSets, TLC

\* ------------------------------------------------------------------ bounds
MaxDrop == 2

\* calls a caller makes on its BitStream
MaxOps == 3

\* threads of a C program that uses the library, and the API calls they make
NumThreads == 2

MaxCalls == 4

\* bytes of the buffers a caller hands to Init
BufSize == 12

\* ------------------------------------------------------- integer helpers
Pow2(n) == IF n = 0 THEN 1 ELSE IF n = 1 THEN 2 ELSE IF n = 2 THEN 4
           ELSE IF n = 3 THEN 8 ELSE IF n = 4 THEN 16 ELSE IF n = 5 THEN 32
           ELSE IF n = 6 THEN 64 ELSE IF n = 7 THEN 128 ELSE 2 ^ n

\* A uint32 is carried as the integer that has the same 32 bits in two's
\* complement: the values from 2^31 on are the negative integers.
\* bit k (0 = least significant) of a uint32
BitOf(v, k) ==
  IF v >= 0 THEN (IF k >= 31 THEN 0 ELSE (v \div Pow2(k)) % 2)
  ELSE IF k >= 31 THEN 1
  ELSE (((v + 2147483647) + 1) \div Pow2(k)) % 2

\* (value << 1) | bit on a uint32 whose top bit is clear
ShiftIn(value, bit) ==
  IF value >= 1073741824 THEN ((2 * (value - 1073741824) + bit) - 2147483647) - 1
  ELSE 2 * value + bit

\* (value >> shift) & ((1 << n) - 1) for n <= 8
RECURSIVE BitsOf(_, _, _)
BitsOf(value, shift, n) ==
  IF n <= 0 THEN 0 ELSE BitOf(value, shift) + 2 * BitsOf(value, shift + 1, n - 1)

\* a | b on bytes
RECURSIVE ByteOr(_, _, _)
ByteOr(a, b, n) ==
  IF n <= 0 THEN 0
  ELSE (IF a % 2 = 1 \/ b % 2 = 1 THEN 1 ELSE 0) + 2 * ByteOr(a \div 2, b \div 2, n - 1)

\* the ten 7-bit groups of a uint64 given as a natural below 2^31
U64(n) == [i \in 1..10 |-> IF i <= 4 THEN (n \div (128 ^ (i - 1))) % 128
                           ELSE IF i = 5 THEN n \div (128 ^ 4) ELSE 0]

\* the uint64 value 2^63 (bit 63 set, everything else clear)
U64Top == [i \in 1..10 |-> IF i = 10 THEN 1 ELSE 0]

\* the uint64 value 2^64 - 1
U64Max == [i \in 1..10 |-> IF i = 10 THEN 1 ELSE 127]

\* number of significant 7-bit groups of a uint64 (at least one)
RECURSIVE GroupCount(_, _)
GroupCount(g, i) == IF i = 1 THEN 1 ELSE IF g[i] # 0 THEN i ELSE GroupCount(g, i - 1)

\* Go's uint16(v) on a uint64: the low 16 bits
Low16(g) == g[1] + 128 * g[2] + 16384 * (g[3] % 4)

\* Go's uint32(v) fits a natural only below 2^31; the model keeps the
\* low 28 bits apart from the rest
FitsInt(g) == \A i \in 5..10 : g[i] = 0
Low28(g) == g[1] + 128 * g[2] + 16384 * g[3] + 2097152 * g[4]

\* Go's int(v) on a uint64 is negative exactly when bit 63 is set
IsNegativeAsInt(g) == g[10] = 1

\* ------------------------------------------------------- function calls
\* A Go function f is modelled by two definitions: f_body is the function's
\* code, and f(args) is a call of it, made through Call.
RECURSIVE Call(_, _)

\* ------------------------------------------------------------- BitStream
exiBitstreamMaxBitCount == 8

defaultEncodeBufferSize == 4096

NewStream == [data |-> <<>>, dataNil |-> TRUE, dataSize |-> 0, bytePos |-> 0,
              bitCount |-> 0, initCalled |-> FALSE, flagBytePos |-> 0,
              err |-> "ok", val |-> 0, trace |-> <<>>, allocs |-> <<>>,
              panicked |-> FALSE, invoked |-> "none", lens |-> <<>>,
              turns |-> 0, idleTurn |-> FALSE]

\* Init that takes the offset as given
BitStreamInitUnclamped(bs, data, isNil, dataOffset) ==
  [bs EXCEPT !.data = data, !.dataNil = isNil,
             !.dataSize = IF isNil THEN 0 ELSE Len(data),
             !.bytePos = dataOffset, !.bitCount = 0, !.initCalled = TRUE,
             !.flagBytePos = dataOffset]

\* (bs *BitStream) Init(data, dataOffset)
BitStreamInit(bs, data, isNil, dataOffset) ==
  LET size == IF isNil THEN 0 ELSE Len(data)
      off0 == IF dataOffset < 0 THEN 0 ELSE dataOffset
      off  == IF off0 > size THEN size ELSE off0
  IN [bs EXCEPT !.data = data, !.dataNil = isNil, !.dataSize = size,
                !.bytePos = off, !.bitCount = 0, !.initCalled = TRUE,
                !.flagBytePos = off]

\* (bs *BitStream) Reset()
Reset(bs) ==
  [bs EXCEPT !.bytePos = IF bs.initCalled THEN bs.flagBytePos ELSE 0,
             !.bitCount = 0]

\* Length counted from the start of the buffer
LengthFromZero(bs) == IF bs.bitCount > 0 THEN bs.bytePos + 1 ELSE bs.bytePos

\* (bs *BitStream) Length()
Length(bs) ==
  LET l0 == bs.bytePos
      l1 == IF bs.initCalled /\ bs.flagBytePos > 0 THEN l0 - bs.flagBytePos ELSE l0
  IN IF bs.bitCount > 0 THEN l1 + 1 ELSE l1

\* (bs *BitStream) ensureBitCapacity()
ensureBitCapacity(bs) ==
  IF bs.bitCount = exiBitstreamMaxBitCount
  THEN IF bs.bytePos < bs.dataSize
       THEN [bs EXCEPT !.bytePos = bs.bytePos + 1, !.bitCount = 0]
       ELSE [bs EXCEPT !.err = "Overflow"]
  ELSE bs

\* writeBit without the clearing of a fresh byte
writeBitOr(bs, bit) ==
  IF bs.dataNil THEN [bs EXCEPT !.err = "NotInitialized"]
  ELSE LET b1 == IF bs.bitCount = exiBitstreamMaxBitCount THEN ensureBitCapacity(bs) ELSE bs
       IN IF b1.err # "ok" THEN b1
          ELSE IF b1.bytePos >= b1.dataSize THEN [b1 EXCEPT !.err = "Overflow"]
          ELSE LET cur0 == b1.data[b1.bytePos + 1]
                   k    == exiBitstreamMaxBitCount - (b1.bitCount + 1)
                   cur2 == IF bit # 0 /\ BitOf(cur0, k) = 0 THEN cur0 + Pow2(k) ELSE cur0
               IN [b1 EXCEPT !.data[b1.bytePos + 1] = cur2,
                             !.bitCount = b1.bitCount + 1]

\* (bs *BitStream) writeBit(bit)
writeBit(bs, bit) ==
  IF bs.dataNil THEN [bs EXCEPT !.err = "NotInitialized"]
  ELSE LET b1 == IF bs.bitCount = exiBitstreamMaxBitCount THEN ensureBitCapacity(bs) ELSE bs
       IN IF b1.err # "ok" THEN b1
          ELSE IF b1.bytePos >= b1.dataSize THEN [b1 EXCEPT !.err = "Overflow"]
          ELSE LET cur0 == b1.data[b1.bytePos + 1]
                   cur1 == IF b1.bitCount = 0 THEN 0 ELSE cur0
                   k    == exiBitstreamMaxBitCount - (b1.bitCount + 1)
                   cur2 == IF bit # 0 /\ BitOf(cur1, k) = 0 THEN cur1 + Pow2(k) ELSE cur1
               IN [b1 EXCEPT !.data[b1.bytePos + 1] = cur2,
                             !.bitCount = b1.bitCount + 1]

\* (bs *BitStream) readBit(); the bit read is left in val
readBit(bs) ==
  IF bs.dataNil THEN [bs EXCEPT !.err = "NotInitialized"]
  ELSE LET b1 == IF bs.bitCount = exiBitstreamMaxBitCount THEN ensureBitCapacity(bs) ELSE bs
       IN IF b1.err # "ok" THEN b1
          ELSE IF b1.bytePos >= b1.dataSize THEN [b1 EXCEPT !.err = "Overflow"]
          ELSE LET cur   == b1.data[b1.bytePos + 1]
                   shift == exiBitstreamMaxBitCount - (b1.bitCount + 1)
               IN [b1 EXCEPT !.val = BitOf(cur, shift),
                             !.bitCount = b1.bitCount + 1]

\* the bits between the start of the buffer and the cursor
BitsPassed(bs) == 8 * bs.bytePos + bs.bitCount

\* one turn of a loop of a decoder has taken the stream from b0 to b1: the
\* turns are counted, and a turn that ended without error and without
\* having read a bit is noted
Turn(b0, b1) ==
  [b1 EXCEPT !.turns = b1.turns + 1,
             !.idleTurn = b1.idleTurn \/ (b1.err = "ok" /\ BitsPassed(b1) = BitsPassed(b0))]

\* the loop of WriteBits: bits n .. bitCount-1 of value, MSB first
RECURSIVE WriteBitsLoop(_, _, _, _)
WriteBitsLoop(bs, bitCount, value, n) ==
  IF n >= bitCount THEN bs
  ELSE LET b1 == writeBit(bs, BitOf(value, bitCount - n - 1))
       IN IF b1.err # "ok" THEN b1 ELSE WriteBitsLoop(b1, bitCount, value, n + 1)

\* (bs *BitStream) WriteBits(bitCount, value)
WriteBits(bs, bitCount, value) == Call("WriteBits", <<bs, bitCount, value>>)
WriteBits_body(bs, bitCount, value) ==
  IF bs.err # "ok" THEN bs
  ELSE IF bitCount <= 0 \/ bitCount > 32 THEN [bs EXCEPT !.err = "BitCountOutOfRange"]
  ELSE LET b1 == WriteBitsLoop(bs, bitCount, value, 0)
       IN IF b1.err # "ok" THEN b1
          ELSE [b1 EXCEPT !.trace = Append(bs.trace, <<bitCount, value>>)]

\* (bs *BitStream) WriteOctet(value)
WriteOctet(bs, value) == WriteBits(bs, 8, value)

\* the loop of ReadBits: value accumulated so far in acc
RECURSIVE ReadBitsLoop(_, _, _, _)
ReadBitsLoop(bs, bitCount, i, acc) ==
  IF i >= bitCount THEN [bs EXCEPT !.val = acc]
  ELSE LET b1 == readBit(bs)
       IN IF b1.err # "ok" THEN [b1 EXCEPT !.val = 0]
          ELSE ReadBitsLoop(b1, bitCount, i + 1, ShiftIn(acc, b1.val))

\* (bs *BitStream) ReadBits(bitCount)
ReadBits(bs, bitCount) == Call("ReadBits", <<bs, bitCount>>)
ReadBits_body(bs, bitCount) ==
  IF bs.err # "ok" THEN bs
  ELSE IF bitCount <= 0 \/ bitCount > 32 THEN [bs EXCEPT !.err = "BitCountOutOfRange"]
  ELSE LET b1 == ReadBitsLoop(bs, bitCount, 0, 0)
       IN IF b1.err # "ok" THEN b1
          ELSE [b1 EXCEPT !.trace = Append(bs.trace, <<bitCount, b1.val>>)]

\* (bs *BitStream) ReadOctet()
ReadOctet(bs) == ReadBits(bs, 8)

\* the 7-bit groups without continuation flags
VarOctetsPlain(g) == [i \in 1..GroupCount(g, 10) |-> g[i]]

\* the octets WriteUnsignedVar collects: 7-bit groups, low-order first, the
\* continuation flag 0x80 on every octet but the last
VarOctets(g) ==
  LET n == GroupCount(g, 10)
  IN [i \in 1..n |-> IF i < n THEN g[i] + 128 ELSE g[i]]

\* `for _, o := range octs { WriteOctet(o) }` over octs[lo..hi]: the first
\* half of the octets, then the rest, stopping at the first error
RECURSIVE WriteOctets(_, _, _, _)
WriteOctets(bs, octs, lo, hi) ==
  IF lo > hi THEN bs
  ELSE IF lo = hi THEN WriteOctet(bs, octs[lo])
  ELSE LET mid == (lo + hi) \div 2
           b1  == WriteOctets(bs, octs, lo, mid)
       IN IF b1.err # "ok" THEN b1 ELSE WriteOctets(b1, octs, mid + 1, hi)

\* (bs *BitStream) WriteUnsignedVar(value)
WriteUnsignedVar(bs, g) == Call("WriteUnsignedVar", <<bs, g>>)
WriteUnsignedVar_body(bs, g) ==
  IF bs.err # "ok" THEN bs ELSE WriteOctets(bs, VarOctets(g), 1, Len(VarOctets(g)))

\* the loop of ReadUnsignedVar without the check of shift
RECURSIVE ReadUnsignedVarLoopUnchecked(_, _, _)
ReadUnsignedVarLoopUnchecked(bs, i, acc) ==
  LET b1 == ReadOctet(bs)
  IN IF b1.err # "ok" THEN [b1 EXCEPT !.val = U64(0)]
     ELSE LET value == b1.val % 128
              acc1  == IF i > 10 THEN acc
                       ELSE [acc EXCEPT ![i] = IF i = 10 THEN value % 2 ELSE value]
          IN IF b1.val < 128 THEN [b1 EXCEPT !.val = acc1]
             ELSE ReadUnsignedVarLoopUnchecked(b1, i + 1, acc1)

\* the loop of ReadUnsignedVar; shift = 7 * (i - 1), result in acc.
\* value << 63 keeps bit 0 of the tenth group only (uint64 arithmetic).
RECURSIVE ReadUnsignedVarLoop(_, _, _)
ReadUnsignedVarLoop(bs, i, acc) ==
  LET b1 == ReadOctet(bs)
  IN IF b1.err # "ok" THEN [b1 EXCEPT !.val = U64(0)]
     ELSE LET value == b1.val % 128
              acc1  == [acc EXCEPT ![i] = IF i = 10 THEN value % 2 ELSE value]
          IN IF b1.val < 128 THEN [b1 EXCEPT !.val = acc1]
             ELSE IF 7 * i >= 64 THEN [b1 EXCEPT !.err = "BitCountOutOfRange", !.val = U64(0)]
             ELSE ReadUnsignedVarLoop(Turn(bs, b1), i + 1, acc1)

\* (bs *BitStream) ReadUnsignedVar()
ReadUnsignedVar(bs) == Call("ReadUnsignedVar", <<bs>>)
ReadUnsignedVar_body(bs) ==
  IF bs.err # "ok" THEN bs ELSE ReadUnsignedVarLoop(bs, 1, U64(0))

\* the loop of ReadBitsOptimized: as many bits as the current byte still
\* holds are taken at once; value accumulated so far in acc
RECURSIVE ShiftInBitsLowFirst(_, _, _)
ShiftInBitsLowFirst(acc, bits, n) ==
  IF n <= 0 THEN acc ELSE ShiftInBitsLowFirst(ShiftIn(acc, bits % 2), bits \div 2, n - 1)

RECURSIVE ShiftInBits(_, _, _)
ShiftInBits(acc, bits, n) ==
  IF n <= 0 THEN acc ELSE ShiftInBits(ShiftIn(acc, BitOf(bits, n - 1)), bits, n - 1)

RECURSIVE ReadBitsOptimizedLoop(_, _, _)
ReadBitsOptimizedLoop(bs, bitsRemaining, acc) ==
  IF bitsRemaining <= 0 THEN [bs EXCEPT !.val = acc]
  ELSE LET b1 == IF bs.bitCount = exiBitstreamMaxBitCount THEN ensureBitCapacity(bs) ELSE bs
       IN IF b1.err # "ok" THEN [b1 EXCEPT !.val = 0]
          ELSE IF b1.bytePos >= b1.dataSize THEN [b1 EXCEPT !.err = "Overflow", !.val = 0]
          ELSE LET bitsAvailableInByte == exiBitstreamMaxBitCount - b1.bitCount
                   bitsToRead == IF bitsRemaining > bitsAvailableInByte
                                 THEN bitsAvailableInByte ELSE bitsRemaining
                   currentByte == b1.data[b1.bytePos + 1]
                   shift == exiBitstreamMaxBitCount - (b1.bitCount + bitsToRead)
                   bits  == BitsOf(currentByte, shift, bitsToRead)
               IN ReadBitsOptimizedLoop([b1 EXCEPT !.bitCount = b1.bitCount + bitsToRead],
                                        bitsRemaining - bitsToRead,
                                        ShiftInBits(acc, bits, bitsToRead))

\* (bs *BitStream) ReadBitsOptimized(bitCount)
ReadBitsOptimized(bs, bitCount) ==
  IF bs.err # "ok" THEN bs
  ELSE IF bitCount <= 0 \/ bitCount > 32 THEN [bs EXCEPT !.err = "BitCountOutOfRange"]
  ELSE IF bs.dataNil THEN [bs EXCEPT !.err = "NotInitialized"]
  ELSE LET b1 == ReadBitsOptimizedLoop(bs, bitCount, 0)
       IN IF b1.err # "ok" THEN b1
          ELSE [b1 EXCEPT !.trace = Append(bs.trace, <<bitCount, b1.val>>)]

\* the loop of WriteBitsOptimized: the bits are OR-ed into the current byte
RECURSIVE WriteBitsOptimizedLoop(_, _, _)
WriteBitsOptimizedLoop(bs, bitsRemaining, value) ==
  IF bitsRemaining <= 0 THEN bs
  ELSE IF bs.dataNil THEN [bs EXCEPT !.err = "NotInitialized"]
  ELSE LET b1 == IF bs.bitCount = exiBitstreamMaxBitCount THEN ensureBitCapacity(bs) ELSE bs
       IN IF b1.err # "ok" THEN b1
          ELSE IF b1.bytePos >= b1.dataSize THEN [b1 EXCEPT !.err = "Overflow"]
          ELSE LET bitsAvailableInByte == exiBitstreamMaxBitCount - b1.bitCount
                   bitsToWrite == IF bitsRemaining > bitsAvailableInByte
                                  THEN bitsAvailableInByte ELSE bitsRemaining
                   shift    == bitsRemaining - bitsToWrite
                   bits     == BitsOf(value, shift, bitsToWrite)
                   bitShift == exiBitstreamMaxBitCount - (b1.bitCount + bitsToWrite)
                   current  == ByteOr(b1.data[b1.bytePos + 1], bits * Pow2(bitShift), 8)
               IN WriteBitsOptimizedLoop(
                    [b1 EXCEPT !.data[b1.bytePos + 1] = current,
                               !.bitCount = b1.bitCount + bitsToWrite],
                    bitsRemaining - bitsToWrite, value)

\* (bs *BitStream) WriteBitsOptimized(bitCount, value)
WriteBitsOptimized(bs, bitCount, value) ==
  IF bs.err # "ok" THEN bs
  ELSE IF bitCount <= 0 \/ bitCount > 32 THEN [bs EXCEPT !.err = "BitCountOutOfRange"]
  ELSE IF bs.dataNil THEN [bs EXCEPT !.err = "NotInitialized"]
  ELSE LET b1 == WriteBitsOptimizedLoop(bs, bitCount, value)
       IN IF b1.err # "ok" THEN b1
          ELSE [b1 EXCEPT !.trace = Append(bs.trace, <<bitCount, value>>)]

\* ------------------------------------------------ primitive codec helpers
\* the builtin make([]T, n): the request is recorded with the number of
\* input bytes still unread (BitStream.dataSize - bytePos); a length that
\* is negative as an int raises the run-time panic "makeslice: len out of
\* range", which no decoder recovers from.
HugeCount == 268435456

CountOf(g) == IF FitsInt(g) THEN Low28(g) ELSE HugeCount

make(bs, g) ==
  IF bs.err # "ok" THEN bs
  ELSE LET b1 == [bs EXCEPT !.allocs = Append(bs.allocs,
                       [n |-> CountOf(g), rem |-> bs.dataSize - bs.bytePos])]
       IN IF IsNegativeAsInt(g) THEN [b1 EXCEPT !.err = "panic", !.panicked = TRUE]
          ELSE b1

\* the bits of the input not yet read
RemainingBits(bs) == 8 * (bs.dataSize - bs.bytePos) - bs.bitCount

\* a length prefix has been read: the unsigned-var g as the stream carried
\* it, standing for g - less bytes
noteLength(bs, g, less) ==
  IF bs.err # "ok" THEN bs
  ELSE [bs EXCEPT !.lens = Append(bs.lens, [claimed |-> g, less |-> less,
                                            remBits |-> RemainingBits(bs)])]

\* writeUint16(bs, v)
writeUint16(bs, v) == Call("writeUint16", <<bs, v>>)
writeUint16_body(bs, v) == WriteUnsignedVar(bs, U64(v))

\* readUint16(bs): uint16(v) of the varint read, the error passed through
readUint16(bs) == Call("readUint16", <<bs>>)
readUint16_body(bs) ==
  LET b1 == ReadUnsignedVar(bs)
  IN IF bs.err # "ok" THEN bs
     ELSE IF b1.err # "ok" THEN [b1 EXCEPT !.val = 0]
     ELSE [b1 EXCEPT !.val = Low16(b1.val)]

\* writeRawBytes(bs, data)
writeRawBytes(bs, data) == Call("writeRawBytes", <<bs, data>>)
writeRawBytes_body(bs, data) == IF bs.err # "ok" THEN bs ELSE WriteOctets(bs, data, 1, Len(data))

\* the loop `for i := 0; i < int(n); i++ { out[i] = ReadOctet() }`
\* n octets: the first half, then the rest, stopping at the first error
RECURSIVE ReadOctetsLoop(_, _)
ReadOctetsLoop(bs, n) ==
  IF n <= 0 THEN [bs EXCEPT !.val = <<>>]
  ELSE IF n = 1
  THEN LET b1 == ReadOctet(bs)
       IN IF b1.err # "ok" THEN b1 ELSE Turn(bs, [b1 EXCEPT !.val = <<b1.val>>])
  ELSE LET b1 == ReadOctetsLoop(bs, n \div 2)
       IN IF b1.err # "ok" THEN b1
          ELSE LET b2 == ReadOctetsLoop(b1, n - (n \div 2))
               IN IF b2.err # "ok" THEN b2
                  ELSE [b2 EXCEPT !.val = b1.val \o b2.val]

\* `out := make([]byte, n)` followed by the read loop
readRawBytes(bs, n) == Call("readRawBytes", <<bs, n>>)
readRawBytes_body(bs, n) ==
  IF bs.err # "ok" THEN bs ELSE ReadOctetsLoop(make(bs, U64(n)), n)

\* writeBytes(bs, data)
writeBytes(bs, data) == Call("writeBytes", <<bs, data>>)
writeBytes_body(bs, data) ==
  IF bs.err # "ok" THEN bs
  ELSE IF Len(data) > 65535 THEN [bs EXCEPT !.err = "TooLarge"]
  ELSE writeRawBytes(writeUint16(bs, Len(data)), data)

\* a reader of a byte string that takes nothing from the stream
readBytesNothing(bs) == IF bs.err # "ok" THEN bs ELSE [bs EXCEPT !.val = <<>>]

\* readBytes(bs)
readBytes(bs) == Call("readBytes", <<bs>>)
readBytes_body(bs) ==
  LET b1 == noteLength(readUint16(bs), ReadUnsignedVar(bs).val, 0)
  IN IF b1.err # "ok" THEN b1
     ELSE IF b1.val = 0 THEN [b1 EXCEPT !.val = <<>>]
     ELSE readRawBytes(b1, b1.val)

\* writeString(bs, s)
writeString(bs, s) == writeBytes(bs, s)

\* readString(bs)
readString(bs) == readBytes(bs)

\* writeStringArray / writeBinaryArray: count, then each item
RECURSIVE WriteItems(_, _, _)
WriteItems(bs, arr, i) ==
  IF i > Len(arr) \/ bs.err # "ok" THEN bs
  ELSE WriteItems(writeBytes(bs, arr[i]), arr, i + 1)

writeBinaryArray(bs, arr) == Call("writeBinaryArray", <<bs, arr>>)
writeBinaryArray_body(bs, arr) ==
  IF bs.err # "ok" THEN bs
  ELSE IF Len(arr) > 65535 THEN [bs EXCEPT !.err = "TooLarge"]
  ELSE WriteItems(writeUint16(bs, Len(arr)), arr, 1)

writeStringArray(bs, arr) == writeBinaryArray(bs, arr)

RECURSIVE ReadItems(_, _, _)
ReadItems(bs, cnt, acc) ==
  IF Len(acc) >= cnt THEN [bs EXCEPT !.val = acc]
  ELSE LET b1 == readBytes(bs)
       IN IF b1.err # "ok" THEN b1 ELSE ReadItems(Turn(bs, b1), cnt, Append(acc, b1.val))

\* readBinaryArray(bs)
readBinaryArray(bs) == Call("readBinaryArray", <<bs>>)
readBinaryArray_body(bs) ==
  LET b1 == readUint16(bs)
  IN IF b1.err # "ok" THEN b1
     ELSE IF b1.val = 0 THEN [b1 EXCEPT !.val = <<>>]
     ELSE ReadItems(make(b1, U64(b1.val)), b1.val, <<>>)

readStringArray(bs) == readBinaryArray(bs)

\* a grammar marker read and ignored: `if _, err := bs.ReadBits(n)`
Skip(bs, n) == ReadBits(bs, n)

\* Go's uint16(x) on an int
U16(x) == x % 65536

\* ---------------------------------------------------------- header codec
\* encodeMessageHeaderType(bs, h)
encodeMessageHeaderType(bs, h) == Call("encodeMessageHeaderType", <<bs, h>>)
encodeMessageHeaderType_body(bs, h) ==
  LET s1 == WriteBits(bs, 1, 0)
      s2 == WriteBits(s1, 1, 0)
      s3 == writeUint16(s2, U16(Len(h.SessionID)))
      s4 == writeRawBytes(s3, h.SessionID)
      s5 == WriteBits(s4, 1, 0)
      s6 == WriteBits(s5, 1, 0)
      s7 == WriteBits(s6, 1, 0)
      s8 == WriteUnsignedVar(s7, h.TimeStamp)
      s9 == WriteBits(s8, 1, 0)
  IN WriteBits(s9, 2, 1)

\* decodeMessageHeaderType(bs)
decodeMessageHeaderType(bs) == Call("decodeMessageHeaderType", <<bs>>)
decodeMessageHeaderType_body(bs) ==
  LET r1 == Skip(Skip(bs, 1), 1)
      r2 == noteLength(readUint16(r1), ReadUnsignedVar(r1).val, 0)
      r3 == readRawBytes(r2, r2.val)
      r4 == Skip(Skip(Skip(r3, 1), 1), 1)
      r5 == ReadUnsignedVar(r4)
      r6 == Skip(Skip(r5, 1), 2)
  IN IF r6.err # "ok" THEN r6
     ELSE [r6 EXCEPT !.val = [SessionID |-> r3.val, TimeStamp |-> r5.val]]

\* the schema-typed string / identifier field: length + 2 on the wire
\* (`uint16(len(x)) + 2` and `length -= 2` are uint16 arithmetic)
writeSchemaBytes(bs, data) == Call("writeSchemaBytes", <<bs, data>>)
writeSchemaBytes_body(bs, data) ==
  writeRawBytes(writeUint16(bs, U16(U16(Len(data)) + 2)), data)

readSchemaBytes(bs) == Call("readSchemaBytes", <<bs>>)
readSchemaBytes_body(bs) ==
  LET r1 == noteLength(readUint16(bs), ReadUnsignedVar(bs).val, 2)
  IN IF r1.err # "ok" THEN r1 ELSE readRawBytes(r1, U16(r1.val + 65536 - 2))

\* -------------------------------------------------------- SessionSetupReq
\* EncodeSessionSetupReq(bs, v)
EncodeSessionSetupReq(bs, v) == Call("EncodeSessionSetupReq", <<bs, v>>)
EncodeSessionSetupReq_body(bs, v) ==
  LET s1 == WriteBits(bs, 1, 0)
      s2 == encodeMessageHeaderType(s1, v.Header)
      s3 == WriteBits(WriteBits(s2, 1, 0), 1, 0)
      s4 == writeSchemaBytes(s3, v.EVCCID)
  IN WriteBits(WriteBits(s4, 1, 0), 1, 0)

\* DecodeSessionSetupReq(bs)
DecodeSessionSetupReq(bs) == Call("DecodeSessionSetupReq", <<bs>>)
DecodeSessionSetupReq_body(bs) ==
  LET r1 == decodeMessageHeaderType(Skip(bs, 1))
      r2 == readSchemaBytes(Skip(Skip(r1, 1), 1))
      r3 == Skip(Skip(r2, 1), 1)
  IN IF r3.err # "ok" THEN r3
     ELSE [r3 EXCEPT !.val = [Header |-> r1.val, EVCCID |-> r2.val]]

\* ------------------------------------------------------------ enum tables
mapResponseCodeToEnum(code) ==
  CASE code = "OK" -> 0
    [] code = "OK_CertificateExpiresSoon" -> 1
    [] code = "OK_NewSessionEstablished" -> 2
    [] code = "OK_OldSessionJoined" -> 3
    [] code = "FAILED" -> 32
    [] OTHER -> 0

mapEnumToResponseCode(code) ==
  CASE code = 0 -> "OK"
    [] code = 1 -> "OK_CertificateExpiresSoon"
    [] code = 2 -> "OK_NewSessionEstablished"
    [] code = 3 -> "OK_OldSessionJoined"
    [] code = 32 -> "FAILED"
    [] OTHER -> "OK"

mapChargingSessionToEnum(session) ==
  CASE session = "Pause" -> 0
    [] session = "Terminate" -> 1
    [] session = "ServiceRenegotiation" -> 2
    [] OTHER -> 1

mapEnumToChargingSession(session) ==
  CASE session = 0 -> "Pause"
    [] session = 1 -> "Terminate"
    [] session = 2 -> "ServiceRenegotiation"
    [] OTHER -> "Terminate"

mapEVSEProcessingToEnum(processing) ==
  CASE processing = "Finished" -> 0
    [] processing = "Ongoing" -> 1
    [] processing = "Ongoing_WaitingForCustomerInteraction" -> 2
    [] OTHER -> 1

mapEnumToEVSEProcessing(processing) ==
  CASE processing = 0 -> "Finished"
    [] processing = 1 -> "Ongoing"
    [] processing = 2 -> "Ongoing_WaitingForCustomerInteraction"
    [] OTHER -> "Ongoing"

mapEVProcessingToEnum(processing) ==
  CASE processing = "Finished" -> 0
    [] processing = "Ongoing" -> 1
    [] OTHER -> 1

mapEnumToEVProcessing(processing) ==
  CASE processing = 0 -> "Finished"
    [] processing = 1 -> "Ongoing"
    [] OTHER -> "Ongoing"

\* the enum tables of the data model: the strings each enum may carry
ResponseCodeTable == {"OK", "OK_CertificateExpiresSoon", "OK_NewSessionEstablished",
                      "OK_OldSessionJoined", "FAILED"}
EVSEProcessingTable == {"Finished", "Ongoing", "Ongoing_WaitingForCustomerInteraction"}
EVProcessingTable == {"Finished", "Ongoing"}
ChargingSessionTable == {"Pause", "Terminate", "ServiceRenegotiation"}

\* ------------------------------------------------- common field brackets
\* START, value-type marker, n-bit enum value, END
writeEnumField(bs, n, value) == Call("writeEnumField", <<bs, n, value>>)
writeEnumField_body(bs, n, value) ==
  WriteBits(WriteBits(WriteBits(WriteBits(bs, 1, 0), 1, 0), n, value), 1, 0)

\* the read side; the enum bits are left in val
readEnumField(bs, n) == Call("readEnumField", <<bs, n>>)
readEnumField_body(bs, n) ==
  LET r1 == ReadBits(Skip(Skip(bs, 1), 1), n)
      r2 == Skip(r1, 1)
  IN IF r2.err # "ok" THEN r2 ELSE [r2 EXCEPT !.val = r1.val]

\* START Header, MessageHeaderType
writeHeader(bs, v) == Call("writeHeader", <<bs, v>>)
writeHeader_body(bs, v) == encodeMessageHeaderType(WriteBits(bs, 1, 0), v.Header)

readHeader(bs) == Call("readHeader", <<bs>>)
readHeader_body(bs) == decodeMessageHeaderType(Skip(bs, 1))

\* a message that carries the header and a ResponseCode only
EncodeHeaderResponseCode(bs, v) == Call("EncodeHeaderResponseCode", <<bs, v>>)
EncodeHeaderResponseCode_body(bs, v) ==
  LET s1 == writeHeader(bs, v)
      s2 == writeEnumField(s1, 6, mapResponseCodeToEnum(v.ResponseCode))
  IN WriteBits(s2, 1, 0)

DecodeHeaderResponseCode(bs) == Call("DecodeHeaderResponseCode", <<bs>>)
DecodeHeaderResponseCode_body(bs) ==
  LET r1 == readHeader(bs)
      r2 == readEnumField(r1, 6)
      r3 == Skip(r2, 1)
  IN IF r3.err # "ok" THEN r3
     ELSE [r3 EXCEPT !.val = [Header |-> r1.val,
                              ResponseCode |-> mapEnumToResponseCode(r2.val)]]

\* ---------------------------------------------------- ServiceDiscoveryReq
\* EncodeServiceDiscoveryReq(bs, v): ServiceScope / ServiceCategory ignored
EncodeServiceDiscoveryReq(bs, v) == Call("EncodeServiceDiscoveryReq", <<bs, v>>)
EncodeServiceDiscoveryReq_body(bs, v) == WriteBits(writeHeader(bs, v), 2, 1)

\* DecodeServiceDiscoveryReq(bs)
DecodeServiceDiscoveryReq(bs) == Call("DecodeServiceDiscoveryReq", <<bs>>)
DecodeServiceDiscoveryReq_body(bs) ==
  LET r1 == readHeader(bs)
      r2 == ReadBits(r1, 2)
  IN IF r2.err # "ok" THEN r2
     ELSE IF r2.val # 1 THEN [r2 EXCEPT !.err = "NotImplemented"]
     ELSE [r2 EXCEPT !.val = [Header |-> r1.val, ServiceScope |-> <<>>,
                              ServiceCategory |-> <<>>]]

\* ------------------------------------------------------- ServiceDetailReq
EncodeServiceDetailReq(bs, v) == Call("EncodeServiceDetailReq", <<bs, v>>)
EncodeServiceDetailReq_body(bs, v) ==
  LET s1 == writeHeader(bs, v)
      s2 == writeUint16(WriteBits(WriteBits(s1, 1, 0), 1, 0), v.ServiceID)
  IN WriteBits(WriteBits(s2, 1, 0), 1, 0)

DecodeServiceDetailReq(bs) == Call("DecodeServiceDetailReq", <<bs>>)
DecodeServiceDetailReq_body(bs) ==
  LET r1 == readHeader(bs)
      r2 == readUint16(Skip(Skip(r1, 1), 1))
      r3 == Skip(Skip(r2, 1), 1)
  IN IF r3.err # "ok" THEN r3
     ELSE [r3 EXCEPT !.val = [Header |-> r1.val, ServiceID |-> r2.val]]

\* --------------------------------------------------------- SessionStopReq
\* string encoding flag, length + 2, bytes, END of the field
writeTermString(bs, s) == Call("writeTermString", <<bs, s>>)
writeTermString_body(bs, s) == WriteBits(writeSchemaBytes(WriteBits(bs, 1, 0), s), 1, 0)

readTermString(bs) == Call("readTermString", <<bs>>)
readTermString_body(bs) ==
  LET r1 == readSchemaBytes(Skip(bs, 1))
      r2 == Skip(r1, 1)
  IN IF r2.err # "ok" THEN r2 ELSE [r2 EXCEPT !.val = r1.val]

\* EncodeSessionStopReq(bs, v)
EncodeSessionStopReq(bs, v) == Call("EncodeSessionStopReq", <<bs, v>>)
EncodeSessionStopReq_body(bs, v) ==
  LET s1 == writeHeader(bs, v)
      s2 == writeEnumField(s1, 2, mapChargingSessionToEnum(v.ChargingSession))
  IN IF v.EVTerminationCode # <<>>
     THEN LET s3 == writeTermString(WriteBits(s2, 2, 0), v.EVTerminationCode[1])
          IN IF v.EVTerminationExplanation # <<>>
             THEN WriteBits(writeTermString(WriteBits(s3, 2, 0),
                                            v.EVTerminationExplanation[1]), 1, 0)
             ELSE WriteBits(s3, 2, 1)
     ELSE IF v.EVTerminationExplanation # <<>>
     THEN WriteBits(writeTermString(WriteBits(s2, 2, 1),
                                    v.EVTerminationExplanation[1]), 1, 0)
     ELSE WriteBits(s2, 2, 2)

\* DecodeSessionStopReq(bs)
DecodeSessionStopReq(bs) == Call("DecodeSessionStopReq", <<bs>>)
DecodeSessionStopReq_body(bs) ==
  LET r1 == readHeader(bs)
      r2 == readEnumField(r1, 2)
      r3 == ReadBits(r2, 2)
      c1 == readTermString(r3)
      c2 == ReadBits(c1, 2)
      e1 == readTermString(r3)
      e2 == Skip(e1, 1)
      out(r, code, expl) ==
        IF r.err # "ok" THEN r
        ELSE [r EXCEPT !.val = [Header |-> r1.val,
                 ChargingSession |-> mapEnumToChargingSession(r2.val),
                 EVTerminationCode |-> code, EVTerminationExplanation |-> expl]]
  IN IF r3.err # "ok" THEN r3
     ELSE IF r3.val = 0
     THEN IF c2.err # "ok" THEN c2
          ELSE IF c2.val = 0
          THEN LET x == readTermString(c2) IN out(Skip(x, 1), <<c1.val>>, <<x.val>>)
          ELSE out(c2, <<c1.val>>, <<>>)
     ELSE IF r3.val = 1 THEN out(e2, <<>>, <<e1.val>>)
     ELSE out(r3, <<>>, <<>>)

\* ------------------------- SessionStopRes, ServiceSelectionRes,
\* ------------------------- MeteringConfirmationRes: header + ResponseCode
EncodeSessionStopRes(bs, v) == Call("EncodeSessionStopRes", <<bs, v>>)
EncodeSessionStopRes_body(bs, v) == EncodeHeaderResponseCode(bs, v)
DecodeSessionStopRes(bs) == Call("DecodeSessionStopRes", <<bs>>)
DecodeSessionStopRes_body(bs) == DecodeHeaderResponseCode(bs)
EncodeServiceSelectionRes(bs, v) == Call("EncodeServiceSelectionRes", <<bs, v>>)
EncodeServiceSelectionRes_body(bs, v) == EncodeHeaderResponseCode(bs, v)
DecodeServiceSelectionRes(bs) == Call("DecodeServiceSelectionRes", <<bs>>)
DecodeServiceSelectionRes_body(bs) == DecodeHeaderResponseCode(bs)
EncodeMeteringConfirmationRes(bs, v) == Call("EncodeMeteringConfirmationRes", <<bs, v>>)
EncodeMeteringConfirmationRes_body(bs, v) == EncodeHeaderResponseCode(bs, v)
DecodeMeteringConfirmationRes(bs) == Call("DecodeMeteringConfirmationRes", <<bs>>)
DecodeMeteringConfirmationRes_body(bs) == DecodeHeaderResponseCode(bs)

\* ------------------- AuthorizationSetupReq, MeteringConfirmationReq:
\* ------------------- START Header, header, END
EncodeHeaderOnly(bs, v) == Call("EncodeHeaderOnly", <<bs, v>>)
EncodeHeaderOnly_body(bs, v) == WriteBits(writeHeader(bs, v), 1, 0)

DecodeHeaderOnly(bs) == Call("DecodeHeaderOnly", <<bs>>)
DecodeHeaderOnly_body(bs) ==
  LET r1 == readHeader(bs)
      r2 == Skip(r1, 1)
  IN IF r2.err # "ok" THEN r2 ELSE [r2 EXCEPT !.val = [Header |-> r1.val]]

EncodeAuthorizationSetupReq(bs, v) == Call("EncodeAuthorizationSetupReq", <<bs, v>>)
EncodeAuthorizationSetupReq_body(bs, v) == EncodeHeaderOnly(bs, v)
DecodeAuthorizationSetupReq(bs) == Call("DecodeAuthorizationSetupReq", <<bs>>)
DecodeAuthorizationSetupReq_body(bs) == DecodeHeaderOnly(bs)
EncodeMeteringConfirmationReq(bs, v) == Call("EncodeMeteringConfirmationReq", <<bs, v>>)
EncodeMeteringConfirmationReq_body(bs, v) == EncodeHeaderOnly(bs, v)
DecodeMeteringConfirmationReq(bs) == Call("DecodeMeteringConfirmationReq", <<bs>>)
DecodeMeteringConfirmationReq_body(bs) == DecodeHeaderOnly(bs)

\* ------------------------------------------------------- AuthorizationRes
EncodeAuthorizationRes(bs, v) == Call("EncodeAuthorizationRes", <<bs, v>>)
EncodeAuthorizationRes_body(bs, v) ==
  LET s1 == writeHeader(bs, v)
      s2 == writeEnumField(s1, 6, mapResponseCodeToEnum(v.ResponseCode))
      s3 == writeEnumField(s2, 2, mapEVSEProcessingToEnum(v.EVSEProcessing))
  IN WriteBits(s3, 1, 0)

DecodeAuthorizationRes(bs) == Call("DecodeAuthorizationRes", <<bs>>)
DecodeAuthorizationRes_body(bs) ==
  LET r1 == readHeader(bs)
      r2 == readEnumField(r1, 6)
      r3 == readEnumField(r2, 2)
      r4 == Skip(r3, 1)
  IN IF r4.err # "ok" THEN r4
     ELSE [r4 EXCEPT !.val = [Header |-> r1.val,
                              ResponseCode |-> mapEnumToResponseCode(r2.val),
                              EVSEProcessing |-> mapEnumToEVSEProcessing(r3.val)]]

\* -------------------------------------------------------- SessionSetupRes
\* EncodeSessionSetupRes(bs, v): DateTimeNow is not written
EncodeSessionSetupRes(bs, v) == Call("EncodeSessionSetupRes", <<bs, v>>)
EncodeSessionSetupRes_body(bs, v) ==
  LET s1 == writeHeader(bs, v)
      s2 == writeEnumField(s1, 6, mapResponseCodeToEnum(v.ResponseCode))
      s3 == writeSchemaBytes(WriteBits(WriteBits(s2, 1, 0), 1, 0), v.EVSEID)
  IN WriteBits(WriteBits(s3, 1, 0), 1, 0)

DecodeSessionSetupRes(bs) == Call("DecodeSessionSetupRes", <<bs>>)
DecodeSessionSetupRes_body(bs) ==
  LET r1 == readHeader(bs)
      r2 == readEnumField(r1, 6)
      r3 == readSchemaBytes(Skip(Skip(r2, 1), 1))
      r4 == Skip(Skip(r3, 1), 1)
  IN IF r4.err # "ok" THEN r4
     ELSE [r4 EXCEPT !.val = [Header |-> r1.val,
                              ResponseCode |-> mapEnumToResponseCode(r2.val),
                              EVSEID |-> r3.val, DateTimeNow |-> <<>>]]

\* --------------------------------------------------------- RationalNumber
\* Go's uint8(int8) / uint16(int16) and back: two's complement
ToU8(x) == Call("ToU8", <<x>>)
ToU8_body(x) == (x + 256) % 256
ToI8(b) == Call("ToI8", <<b>>)
ToI8_body(b) == IF b >= 128 THEN b - 256 ELSE b
ToU16(x) == Call("ToU16", <<x>>)
ToU16_body(x) == (x + 65536) % 65536
ToI16(w) == Call("ToI16", <<w>>)
ToI16_body(w) == IF w >= 32768 THEN w - 65536 ELSE w

\* encodeRationalNumber(bs, v)
encodeRationalNumber(bs, v) == Call("encodeRationalNumber", <<bs, v>>)
encodeRationalNumber_body(bs, v) ==
  LET s1 == WriteBits(WriteBits(WriteBits(WriteBits(bs, 1, 0), 1, 0), 8, ToU8(v.Exponent)), 1, 0)
      s2 == writeUint16(WriteBits(WriteBits(s1, 1, 0), 1, 0), ToU16(v.Value))
  IN WriteBits(s2, 1, 0)

\* decodeRationalNumber(bs)
decodeRationalNumber(bs) == Call("decodeRationalNumber", <<bs>>)
decodeRationalNumber_body(bs) ==
  LET r1 == ReadBits(Skip(Skip(bs, 1), 1), 8)
      r2 == readUint16(Skip(Skip(Skip(r1, 1), 1), 1))
      r3 == Skip(r2, 1)
  IN IF r3.err # "ok" THEN r3
     ELSE [r3 EXCEPT !.val = [Exponent |-> ToI8(r1.val), Value |-> ToI16(r2.val)]]

\* --------------------------------------------------------- EVPowerProfile
\* Go's uint32(v) on a uint64
Trunc32(g) == Call("Trunc32", <<g>>)
Trunc32_body(g) == [i \in 1..10 |-> IF i <= 4 THEN g[i] ELSE IF i = 5 THEN g[5] % 16 ELSE 0]

\* encodeEVPowerProfileEntry(bs, v)
encodeEVPowerProfileEntry(bs, v) == Call("encodeEVPowerProfileEntry", <<bs, v>>)
encodeEVPowerProfileEntry_body(bs, v) ==
  LET s1 == WriteUnsignedVar(WriteBits(WriteBits(bs, 1, 0), 1, 0), v.Duration)
      s2 == encodeRationalNumber(WriteBits(WriteBits(s1, 1, 0), 1, 0), v.Power)
  IN WriteBits(s2, 1, 0)

\* decodeEVPowerProfileEntry(bs)
decodeEVPowerProfileEntry(bs) == Call("decodeEVPowerProfileEntry", <<bs>>)
decodeEVPowerProfileEntry_body(bs) ==
  LET r1 == ReadUnsignedVar(Skip(Skip(bs, 1), 1))
      r2 == decodeRationalNumber(Skip(Skip(r1, 1), 1))
      r3 == Skip(r2, 1)
  IN IF r3.err # "ok" THEN r3
     ELSE [r3 EXCEPT !.val = [Duration |-> Trunc32(r1.val), Power |-> r2.val]]

RECURSIVE EncodeEntries(_, _, _)
EncodeEntries(bs, entries, i) ==
  IF i > Len(entries) \/ bs.err # "ok" THEN bs
  ELSE EncodeEntries(WriteBits(encodeEVPowerProfileEntry(WriteBits(bs, 1, 0), entries[i]), 1, 0),
                     entries, i + 1)

\* encodeEVPowerProfile(bs, v)
encodeEVPowerProfile(bs, v) == Call("encodeEVPowerProfile", <<bs, v>>)
encodeEVPowerProfile_body(bs, v) ==
  LET s1 == WriteUnsignedVar(WriteBits(WriteBits(bs, 1, 0), 1, 0), v.TimeAnchor)
      s2 == WriteUnsignedVar(WriteBits(WriteBits(s1, 1, 0), 1, 0), U64(Len(v.Entries)))
  IN WriteBits(EncodeEntries(s2, v.Entries, 1), 1, 0)

\* `for i := uint64(0); i < count; i++`: every round reads at least one
\* bit, so a count beyond HugeCount ends in an error like HugeCount does
RECURSIVE DecodeEntries(_, _, _)
DecodeEntries(bs, count, acc) ==
  IF bs.err # "ok" THEN bs
  ELSE IF Len(acc) >= count THEN [bs EXCEPT !.val = acc]
  ELSE LET r1 == decodeEVPowerProfileEntry(Skip(bs, 1))
           r2 == Skip(r1, 1)
       IN IF r2.err # "ok" THEN r2 ELSE DecodeEntries(Turn(bs, r2), count, Append(acc, r1.val))

\* decodeEVPowerProfile(bs)
decodeEVPowerProfile(bs) == Call("decodeEVPowerProfile", <<bs>>)
decodeEVPowerProfile_body(bs) ==
  LET r1 == ReadUnsignedVar(Skip(Skip(bs, 1), 1))
      r2 == ReadUnsignedVar(Skip(Skip(r1, 1), 1))
      r3 == IF r2.err # "ok" THEN r2
            ELSE DecodeEntries(make(r2, r2.val), CountOf(r2.val), <<>>)
      r4 == Skip(r3, 1)
  IN IF r4.err # "ok" THEN r4
     ELSE [r4 EXCEPT !.val = [TimeAnchor |-> r1.val, Entries |-> r3.val]]

\* ------------------------------------------------------- PowerDeliveryReq
\* START, string, END
writeStringField(bs, s) == Call("writeStringField", <<bs, s>>)
writeStringField_body(bs, s) == WriteBits(writeString(WriteBits(bs, 1, 0), s), 1, 0)

readStringField(bs) == Call("readStringField", <<bs>>)
readStringField_body(bs) ==
  LET r1 == readString(Skip(bs, 1))
      r2 == Skip(r1, 1)
  IN IF r2.err # "ok" THEN r2 ELSE [r2 EXCEPT !.val = r1.val]

\* START EVPowerProfile, profile, END
writeProfileField(bs, p) == Call("writeProfileField", <<bs, p>>)
writeProfileField_body(bs, p) == WriteBits(encodeEVPowerProfile(WriteBits(bs, 1, 0), p), 1, 0)

readProfileField(bs) == Call("readProfileField", <<bs>>)
readProfileField_body(bs) ==
  LET r1 == decodeEVPowerProfile(Skip(bs, 1))
      r2 == Skip(r1, 1)
  IN IF r2.err # "ok" THEN r2 ELSE [r2 EXCEPT !.val = r1.val]

\* EncodePowerDeliveryReq with the selector values of its comment:
\* 0 = EVPowerProfile only, 1 = BPT_ChannelSelection only, 2 = both
EncodePowerDeliveryReqAsCommented(bs, v) ==
  LET s1 == writeHeader(bs, v)
      s2 == writeEnumField(s1, 2, mapEVSEProcessingToEnum(v.EVProcessing))
      s3 == writeStringField(s2, v.ChargeProgress)
      s4 == IF v.EVPowerProfile # <<>> /\ v.BPT_ChannelSelection # <<>>
            THEN writeStringField(writeProfileField(WriteBits(s3, 3, 2), v.EVPowerProfile[1]),
                                  v.BPT_ChannelSelection[1])
            ELSE IF v.EVPowerProfile # <<>>
            THEN writeProfileField(WriteBits(s3, 3, 0), v.EVPowerProfile[1])
            ELSE IF v.BPT_ChannelSelection # <<>>
            THEN writeStringField(WriteBits(s3, 3, 1), v.BPT_ChannelSelection[1])
            ELSE WriteBits(s3, 3, 3)
  IN WriteBits(s4, 1, 0)

\* EncodePowerDeliveryReq(bs, v): EVProcessing goes through the
\* EVSEProcessing table
EncodePowerDeliveryReq(bs, v) == Call("EncodePowerDeliveryReq", <<bs, v>>)
EncodePowerDeliveryReq_body(bs, v) ==
  LET s1 == writeHeader(bs, v)
      s2 == writeEnumField(s1, 2, mapEVSEProcessingToEnum(v.EVProcessing))
      s3 == writeStringField(s2, v.ChargeProgress)
      s4 == IF v.EVPowerProfile # <<>> /\ v.BPT_ChannelSelection # <<>>
            THEN writeStringField(writeProfileField(WriteBits(s3, 3, 0), v.EVPowerProfile[1]),
                                  v.BPT_ChannelSelection[1])
            ELSE IF v.EVPowerProfile # <<>>
            THEN writeProfileField(WriteBits(s3, 3, 1), v.EVPowerProfile[1])
            ELSE IF v.BPT_ChannelSelection # <<>>
            THEN writeStringField(WriteBits(s3, 3, 2), v.BPT_ChannelSelection[1])
            ELSE WriteBits(s3, 3, 3)
  IN WriteBits(s4, 1, 0)

\* DecodePowerDeliveryReq(bs)
DecodePowerDeliveryReq(bs) == Call("DecodePowerDeliveryReq", <<bs>>)
DecodePowerDeliveryReq_body(bs) ==
  LET r1 == readHeader(bs)
      r2 == readEnumField(r1, 2)
      r3 == readStringField(r2)
      r4 == ReadBits(r3, 3)
      p0 == readProfileField(r4)
      b0 == readStringField(p0)
      b2 == readStringField(r4)
      out(r, prof, bpt) ==
        LET e == Skip(r, 1)
        IN IF e.err # "ok" THEN e
           ELSE [e EXCEPT !.val = [Header |-> r1.val,
                    EVProcessing |-> mapEnumToEVSEProcessing(r2.val),
                    ChargeProgress |-> r3.val,
                    EVPowerProfile |-> prof, BPT_ChannelSelection |-> bpt]]
  IN IF r4.err # "ok" THEN r4
     ELSE IF r4.val = 0 THEN (IF b0.err # "ok" THEN b0 ELSE out(b0, <<p0.val>>, <<b0.val>>))
     ELSE IF r4.val = 1 THEN (IF p0.err # "ok" THEN p0 ELSE out(p0, <<p0.val>>, <<>>))
     ELSE IF r4.val = 2 THEN (IF b2.err # "ok" THEN b2 ELSE out(b2, <<>>, <<b2.val>>))
     ELSE out(r4, <<>>, <<>>)

\* ------------------------------------------------------ CertificateChain
\* the hexBinary field: START, marker, length, bytes, END
writeHexField(bs, data) == Call("writeHexField", <<bs, data>>)
writeHexField_body(bs, data) ==
  WriteBits(writeRawBytes(writeUint16(WriteBits(WriteBits(bs, 1, 0), 1, 0), U16(Len(data))),
                          data), 1, 0)

readHexField(bs) == Call("readHexField", <<bs>>)
readHexField_body(bs) ==
  LET r0 == Skip(Skip(bs, 1), 1)
      r1 == noteLength(readUint16(r0), ReadUnsignedVar(r0).val, 0)
      r2 == readRawBytes(r1, r1.val)
      r3 == Skip(r2, 1)
  IN IF r3.err # "ok" THEN r3 ELSE [r3 EXCEPT !.val = r2.val]

RECURSIVE EncodeCerts(_, _, _)
EncodeCerts(bs, certs, i) ==
  IF i > Len(certs) \/ bs.err # "ok" THEN bs
  ELSE EncodeCerts(writeHexField(bs, certs[i]), certs, i + 1)

\* encodeCertificateChain(bs, v)
encodeCertificateChain(bs, v) == Call("encodeCertificateChain", <<bs, v>>)
encodeCertificateChain_body(bs, v) ==
  LET s1 == WriteUnsignedVar(WriteBits(bs, 1, 0), U64(Len(v.Certificates)))
  IN WriteBits(EncodeCerts(s1, v.Certificates, 1), 1, 0)

RECURSIVE DecodeCerts(_, _, _)
DecodeCerts(bs, count, acc) ==
  IF bs.err # "ok" THEN bs
  ELSE IF Len(acc) >= count THEN [bs EXCEPT !.val = acc]
  ELSE LET r1 == readHexField(bs)
       IN IF r1.err # "ok" THEN r1 ELSE DecodeCerts(Turn(bs, r1), count, Append(acc, r1.val))

\* decodeCertificateChain(bs)
decodeCertificateChain(bs) == Call("decodeCertificateChain", <<bs>>)
decodeCertificateChain_body(bs) ==
  LET r1 == ReadUnsignedVar(Skip(bs, 1))
      r2 == IF r1.err # "ok" THEN r1
            ELSE DecodeCerts(make(r1, r1.val), CountOf(r1.val), <<>>)
      r3 == Skip(r2, 1)
  IN IF r3.err # "ok" THEN r3 ELSE [r3 EXCEPT !.val = [Certificates |-> r2.val]]

\* ------------------------------------------------------- AuthorizationReq
\* encodePnC_AReqAuthorizationMode(bs, v)
encodePnC_AReqAuthorizationMode(bs, v) == Call("encodePnC_AReqAuthorizationMode", <<bs, v>>)
encodePnC_AReqAuthorizationMode_body(bs, v) ==
  LET s1 == IF Len(v.GenChallenge) > 0
            THEN writeHexField(WriteBits(bs, 1, 1), v.GenChallenge)
            ELSE WriteBits(bs, 1, 0)
  IN IF v.ContractCertificateChain # <<>>
     THEN WriteBits(encodeCertificateChain(WriteBits(WriteBits(s1, 1, 1), 1, 0),
                                           v.ContractCertificateChain[1]), 1, 0)
     ELSE WriteBits(s1, 1, 0)

\* decodePnC_AReqAuthorizationMode(bs)
decodePnC_AReqAuthorizationMode(bs) == Call("decodePnC_AReqAuthorizationMode", <<bs>>)
decodePnC_AReqAuthorizationMode_body(bs) ==
  LET p1 == ReadBits(bs, 1)
      g  == IF p1.err = "ok" /\ p1.val = 1 THEN readHexField(p1) ELSE [p1 EXCEPT !.val = <<>>]
      p2 == ReadBits(g, 1)
      c1 == decodeCertificateChain(Skip(p2, 1))
      c2 == Skip(c1, 1)
      mode(chain) == [GenChallenge |-> g.val, ContractCertificateChain |-> chain]
  IN IF p2.err # "ok" THEN p2
     ELSE IF p2.val = 1
     THEN (IF c2.err # "ok" THEN c2 ELSE [c2 EXCEPT !.val = mode(<<c1.val>>)])
     ELSE [p2 EXCEPT !.val = mode(<<>>)]

\* EncodeAuthorizationReq(bs, v); the EIM mode has no fields
EncodeAuthorizationReq(bs, v) == Call("EncodeAuthorizationReq", <<bs, v>>)
EncodeAuthorizationReq_body(bs, v) ==
  LET s1 == writeStringField(writeHeader(bs, v), v.SelectedAuthorizationService)
  IN IF v.EIM_AReqAuthorizationMode # <<>>
     THEN WriteBits(WriteBits(WriteBits(WriteBits(s1, 2, 0), 1, 0), 1, 0), 1, 0)
     ELSE IF v.PnC_AReqAuthorizationMode # <<>>
     THEN WriteBits(WriteBits(encodePnC_AReqAuthorizationMode(
                      WriteBits(WriteBits(s1, 2, 1), 1, 0), v.PnC_AReqAuthorizationMode[1]),
                    1, 0), 1, 0)
     ELSE WriteBits(s1, 2, 2)

\* DecodeAuthorizationReq(bs)
DecodeAuthorizationReq(bs) == Call("DecodeAuthorizationReq", <<bs>>)
DecodeAuthorizationReq_body(bs) ==
  LET r1 == readHeader(bs)
      r2 == readStringField(r1)
      r3 == ReadBits(r2, 2)
      e1 == Skip(Skip(Skip(r3, 1), 1), 1)
      q1 == decodePnC_AReqAuthorizationMode(Skip(r3, 1))
      q2 == Skip(Skip(q1, 1), 1)
      msg(eim, pnc) == [Header |-> r1.val, SelectedAuthorizationService |-> r2.val,
                        EIM_AReqAuthorizationMode |-> eim, PnC_AReqAuthorizationMode |-> pnc]
  IN IF r3.err # "ok" THEN r3
     ELSE IF r3.val = 0
     THEN (IF e1.err # "ok" THEN e1 ELSE [e1 EXCEPT !.val = msg(<<"EIM">>, <<>>)])
     ELSE IF r3.val = 1
     THEN (IF q2.err # "ok" THEN q2 ELSE [q2 EXCEPT !.val = msg(<<>>, <<q1.val>>)])
     ELSE [r3 EXCEPT !.val = msg(<<>>, <<>>)]

\* ------------------------------------------------------- ServiceDetailRes
\* START, marker, uint16, END
writeUint16Field(bs, v) == Call("writeUint16Field", <<bs, v>>)
writeUint16Field_body(bs, v) ==
  WriteBits(writeUint16(WriteBits(WriteBits(bs, 1, 0), 1, 0), v), 1, 0)

readUint16Field(bs) == Call("readUint16Field", <<bs>>)
readUint16Field_body(bs) ==
  LET r1 == readUint16(Skip(Skip(bs, 1), 1))
      r2 == Skip(r1, 1)
  IN IF r2.err # "ok" THEN r2 ELSE [r2 EXCEPT !.val = r1.val]

\* encodeParameter(bs, v)
encodeParameter(bs, v) == Call("encodeParameter", <<bs, v>>)
encodeParameter_body(bs, v) ==
  LET s1 == writeStringField(bs, v.Name)
  IN IF v.IntValue # <<>> THEN writeUint16Field(WriteBits(s1, 3, 0), ToU16(v.IntValue[1]))
     ELSE IF v.StrValue # <<>> THEN writeStringField(WriteBits(s1, 3, 1), v.StrValue[1])
     ELSE IF v.BoolValue # <<>>
     THEN WriteBits(WriteBits(WriteBits(WriteBits(WriteBits(s1, 3, 2), 1, 0), 1, 0),
                              1, IF v.BoolValue[1] THEN 1 ELSE 0), 1, 0)
     ELSE WriteBits(s1, 3, 3)

\* decodeParameter(bs)
decodeParameter(bs) == Call("decodeParameter", <<bs>>)
decodeParameter_body(bs) ==
  LET r1 == readStringField(bs)
      r2 == ReadBits(r1, 3)
      i1 == readUint16Field(r2)
      t1 == readStringField(r2)
      b1 == ReadBits(Skip(Skip(r2, 1), 1), 1)
      b2 == Skip(b1, 1)
      par(i, t, b) == [Name |-> r1.val, IntValue |-> i, StrValue |-> t, BoolValue |-> b]
  IN IF r2.err # "ok" THEN r2
     ELSE IF r2.val = 0
     THEN (IF i1.err # "ok" THEN i1 ELSE [i1 EXCEPT !.val = par(<<ToI16(i1.val)>>, <<>>, <<>>)])
     ELSE IF r2.val = 1
     THEN (IF t1.err # "ok" THEN t1 ELSE [t1 EXCEPT !.val = par(<<>>, <<t1.val>>, <<>>)])
     ELSE IF r2.val = 2
     THEN (IF b2.err # "ok" THEN b2 ELSE [b2 EXCEPT !.val = par(<<>>, <<>>, <<b1.val = 1>>)])
     ELSE [r2 EXCEPT !.val = par(<<>>, <<>>, <<>>)]

RECURSIVE EncodeParameters(_, _, _)
EncodeParameters(bs, ps, i) ==
  IF i > Len(ps) \/ bs.err # "ok" THEN bs
  ELSE EncodeParameters(WriteBits(encodeParameter(WriteBits(bs, 1, 0), ps[i]), 1, 0), ps, i + 1)

RECURSIVE DecodeParameters(_, _, _)
DecodeParameters(bs, count, acc) ==
  IF bs.err # "ok" THEN bs
  ELSE IF Len(acc) >= count THEN [bs EXCEPT !.val = acc]
  ELSE LET r1 == decodeParameter(Skip(bs, 1))
           r2 == Skip(r1, 1)
       IN IF r2.err # "ok" THEN r2 ELSE DecodeParameters(Turn(bs, r2), count, Append(acc, r1.val))

\* encodeParameterSet(bs, v)
encodeParameterSet(bs, v) == Call("encodeParameterSet", <<bs, v>>)
encodeParameterSet_body(bs, v) ==
  LET s1 == writeUint16Field(bs, v.ParameterSetID)
      s2 == WriteUnsignedVar(WriteBits(s1, 1, 0), U64(Len(v.Parameters)))
  IN WriteBits(EncodeParameters(s2, v.Parameters, 1), 1, 0)

\* decodeParameterSet(bs)
decodeParameterSet(bs) == Call("decodeParameterSet", <<bs>>)
decodeParameterSet_body(bs) ==
  LET r1 == readUint16Field(bs)
      r2 == ReadUnsignedVar(Skip(r1, 1))
      r3 == IF r2.err # "ok" THEN r2
            ELSE DecodeParameters(make(r2, r2.val), CountOf(r2.val), <<>>)
      r4 == Skip(r3, 1)
  IN IF r4.err # "ok" THEN r4
     ELSE [r4 EXCEPT !.val = [ParameterSetID |-> r1.val, Parameters |-> r3.val]]

RECURSIVE EncodeParameterSets(_, _, _)
EncodeParameterSets(bs, ps, i) ==
  IF i > Len(ps) \/ bs.err # "ok" THEN bs
  ELSE EncodeParameterSets(WriteBits(encodeParameterSet(WriteBits(bs, 1, 0), ps[i]), 1, 0),
                           ps, i + 1)

RECURSIVE DecodeParameterSets(_, _, _)
DecodeParameterSets(bs, count, acc) ==
  IF bs.err # "ok" THEN bs
  ELSE IF Len(acc) >= count THEN [bs EXCEPT !.val = acc]
  ELSE LET r1 == decodeParameterSet(Skip(bs, 1))
           r2 == Skip(r1, 1)
       IN IF r2.err # "ok" THEN r2 ELSE DecodeParameterSets(Turn(bs, r2), count, Append(acc, r1.val))

\* encodeServiceParameterList(bs, v)
encodeServiceParameterList(bs, v) == Call("encodeServiceParameterList", <<bs, v>>)
encodeServiceParameterList_body(bs, v) ==
  LET s1 == WriteUnsignedVar(WriteBits(bs, 1, 0), U64(Len(v.ParameterSets)))
  IN WriteBits(EncodeParameterSets(s1, v.ParameterSets, 1), 1, 0)

\* decodeServiceParameterList(bs)
decodeServiceParameterList(bs) == Call("decodeServiceParameterList", <<bs>>)
decodeServiceParameterList_body(bs) ==
  LET r1 == ReadUnsignedVar(Skip(bs, 1))
      r2 == IF r1.err # "ok" THEN r1
            ELSE DecodeParameterSets(make(r1, r1.val), CountOf(r1.val), <<>>)
      r3 == Skip(r2, 1)
  IN IF r3.err # "ok" THEN r3 ELSE [r3 EXCEPT !.val = [ParameterSets |-> r2.val]]

\* EncodeServiceDetailRes(bs, v)
EncodeServiceDetailRes(bs, v) == Call("EncodeServiceDetailRes", <<bs, v>>)
EncodeServiceDetailRes_body(bs, v) ==
  LET s1 == writeEnumField(writeHeader(bs, v), 6, mapResponseCodeToEnum(v.ResponseCode))
      s2 == writeUint16Field(s1, v.ServiceID)
      s3 == WriteBits(encodeServiceParameterList(WriteBits(s2, 1, 0), v.ServiceParameterList),
                      1, 0)
  IN WriteBits(s3, 1, 0)

\* DecodeServiceDetailRes(bs)
DecodeServiceDetailRes(bs) == Call("DecodeServiceDetailRes", <<bs>>)
DecodeServiceDetailRes_body(bs) ==
  LET r1 == readHeader(bs)
      r2 == readEnumField(r1, 6)
      r3 == readUint16Field(r2)
      r4 == decodeServiceParameterList(Skip(r3, 1))
      r5 == Skip(Skip(r4, 1), 1)
  IN IF r5.err # "ok" THEN r5
     ELSE [r5 EXCEPT !.val = [Header |-> r1.val,
              ResponseCode |-> mapEnumToResponseCode(r2.val),
              ServiceID |-> r3.val, ServiceParameterList |-> r4.val]]

\* ------------------------------------------------- CertificateUpdateReq/Res
\* a presence bit, then the string when it is not empty
writeOptString(bs, s) == Call("writeOptString", <<bs, s>>)
writeOptString_body(bs, s) ==
  IF Len(s) > 0 THEN writeString(WriteBits(bs, 1, 1), s) ELSE WriteBits(bs, 1, 0)

readOptString(bs) == Call("readOptString", <<bs>>)
readOptString_body(bs) ==
  LET p == ReadBits(bs, 1)
  IN IF p.err # "ok" THEN p
     ELSE IF p.val = 1 THEN readString(p) ELSE [p EXCEPT !.val = <<>>]

\* a presence bit, then the bytes when there are any
writeOptBytes(bs, b) == Call("writeOptBytes", <<bs, b>>)
writeOptBytes_body(bs, b) ==
  IF Len(b) > 0 THEN writeBytes(WriteBits(bs, 1, 1), b) ELSE WriteBits(bs, 1, 0)

readOptBytes(bs) == Call("readOptBytes", <<bs>>)
readOptBytes_body(bs) ==
  LET p == ReadBits(bs, 1)
  IN IF p.err # "ok" THEN p
     ELSE IF p.val = 1 THEN readBytes(p) ELSE [p EXCEPT !.val = <<>>]

\* EncodeCertificateUpdateReq(bs, v)
EncodeCertificateUpdateReq(bs, v) == Call("EncodeCertificateUpdateReq", <<bs, v>>)
EncodeCertificateUpdateReq_body(bs, v) ==
  LET s1 == WriteUnsignedVar(writeBytes(bs, v.Header.SessionID), v.Header.TimeStamp)
      s2 == writeOptString(s1, v.Id)
      s3 == writeBinaryArray(s2, v.ContractSignatureCertChain.Certificates)
      s4 == writeOptString(s3, v.ContractID)
      s5 == writeStringArray(s4, v.ListOfRootCertificateIDs)
  IN writeOptBytes(s5, v.DHParams)

\* DecodeCertificateUpdateReq(bs)
DecodeCertificateUpdateReq(bs) == Call("DecodeCertificateUpdateReq", <<bs>>)
DecodeCertificateUpdateReq_body(bs) ==
  LET r1 == readBytes(bs)
      r2 == ReadUnsignedVar(r1)
      r3 == readOptString(r2)
      r4 == readBinaryArray(r3)
      r5 == readOptString(r4)
      r6 == readStringArray(r5)
      r7 == readOptBytes(r6)
  IN IF r7.err # "ok" THEN r7
     ELSE [r7 EXCEPT !.val = [Header |-> [SessionID |-> r1.val, TimeStamp |-> r2.val],
              Id |-> r3.val, ContractSignatureCertChain |-> [Certificates |-> r4.val],
              ContractID |-> r5.val, ListOfRootCertificateIDs |-> r6.val,
              DHParams |-> r7.val]]

\* EncodeCertificateUpdateRes(bs, v): the header is written first
EncodeCertificateUpdateRes(bs, v) == Call("EncodeCertificateUpdateRes", <<bs, v>>)
EncodeCertificateUpdateRes_body(bs, v) ==
  LET s1 == WriteUnsignedVar(writeBytes(bs, v.Header.SessionID), v.Header.TimeStamp)
      s2 == writeOptString(s1, v.Id)
      s3 == writeString(s2, v.ResponseCode)
      s4 == writeBinaryArray(s3, v.ContractSignatureCertChain.Certificates)
      s5 == writeOptString(s4, v.ContractSignatureEncryptedPrivateKey)
      s6 == writeOptBytes(s5, v.DHParams)
      s7 == writeOptString(s6, v.ContractID)
  IN IF v.RetryCounter # <<>> THEN WriteUnsignedVar(WriteBits(s7, 1, 1), v.RetryCounter[1])
     ELSE WriteBits(s7, 1, 0)

\* the zero MessageHeaderType of a struct literal that does not set Header
ZeroHeader == [SessionID |-> <<>>, TimeStamp |-> U64(0)]

\* DecodeCertificateUpdateRes(bs): starts at Id, no header is read
DecodeCertificateUpdateRes(bs) == Call("DecodeCertificateUpdateRes", <<bs>>)
DecodeCertificateUpdateRes_body(bs) ==
  LET r1 == readOptString(bs)
      r2 == readString(r1)
      r3 == readBinaryArray(r2)
      r4 == readOptString(r3)
      r5 == readOptBytes(r4)
      r6 == readOptString(r5)
      p5 == ReadBits(r6, 1)
      r7 == IF p5.err = "ok" /\ p5.val = 1 THEN ReadUnsignedVar(p5) ELSE p5
      msg(retry) == [Header |-> ZeroHeader, Id |-> r1.val, ResponseCode |-> r2.val,
                     ContractSignatureCertChain |-> [Certificates |-> r3.val],
                     ContractSignatureEncryptedPrivateKey |-> r4.val,
                     DHParams |-> r5.val, ContractID |-> r6.val, RetryCounter |-> retry]
  IN IF r7.err # "ok" THEN r7
     ELSE [r7 EXCEPT !.val = msg(IF p5.val = 1 THEN <<r7.val>> ELSE <<>>)]

\* ----------------------------------------------------- ServiceDiscoveryRes
BoolBit(b) == Call("BoolBit", <<b>>)
BoolBit_body(b) == IF b THEN 1 ELSE 0

\* START, the value bit, END
writeBoolField(bs, b) == Call("writeBoolField", <<bs, b>>)
writeBoolField_body(bs, b) == WriteBits(WriteBits(WriteBits(bs, 1, 0), 1, BoolBit(b)), 1, 0)

readBoolField(bs) == Call("readBoolField", <<bs>>)
readBoolField_body(bs) ==
  LET r1 == ReadBits(Skip(bs, 1), 1)
      r2 == Skip(r1, 1)
  IN IF r2.err # "ok" THEN r2 ELSE [r2 EXCEPT !.val = (r1.val = 1)]

\* encodeServiceType(bs, service)
encodeServiceType(bs, service) == Call("encodeServiceType", <<bs, service>>)
encodeServiceType_body(bs, service) ==
  LET s1 == WriteBits(WriteBits(WriteBits(WriteBits(bs, 1, 0), 1, 0), 16, service.ServiceID),
                      1, 0)
  IN WriteBits(writeBoolField(s1, service.FreeService), 1, 0)

\* decodeServiceType(bs)
decodeServiceType(bs) == Call("decodeServiceType", <<bs>>)
decodeServiceType_body(bs) ==
  LET r1 == ReadBits(Skip(Skip(bs, 1), 1), 16)
      r2 == readBoolField(Skip(r1, 1))
      r3 == Skip(r2, 1)
  IN IF r3.err # "ok" THEN r3
     ELSE [r3 EXCEPT !.val = [ServiceID |-> r1.val, FreeService |-> r2.val]]

RECURSIVE EncodeServices(_, _, _)
EncodeServices(bs, services, i) ==
  IF i > Len(services) \/ bs.err # "ok" THEN bs
  ELSE EncodeServices(encodeServiceType(WriteBits(bs, 1, 0), services[i]), services, i + 1)

\* encodeServiceList(bs, list)
encodeServiceList(bs, list) == Call("encodeServiceList", <<bs, list>>)
encodeServiceList_body(bs, list) == WriteBits(EncodeServices(bs, list.Services, 1), 1, 1)

\* decodeServiceList(bs): services until the bit 1
RECURSIVE DecodeServices(_, _)
DecodeServices(bs, acc) ==
  LET c == ReadBits(bs, 1)
      r1 == decodeServiceType(c)
  IN IF c.err # "ok" THEN c
     ELSE IF c.val = 1 THEN [c EXCEPT !.val = [Services |-> acc]]
     ELSE IF r1.err # "ok" THEN r1
     ELSE DecodeServices(Turn(bs, r1), Append(acc, r1.val))

decodeServiceList(bs) == Call("decodeServiceList", <<bs>>)
decodeServiceList_body(bs) == DecodeServices(bs, <<>>)

\* EncodeServiceDiscoveryRes(bs, v)
EncodeServiceDiscoveryRes(bs, v) == Call("EncodeServiceDiscoveryRes", <<bs, v>>)
EncodeServiceDiscoveryRes_body(bs, v) ==
  LET s1 == writeEnumField(writeHeader(bs, v), 6, mapResponseCodeToEnum(v.ResponseCode))
      s2 == writeBoolField(s1, v.ServiceRenegotiationSupported)
      s3 == encodeServiceList(WriteBits(s2, 1, 0), v.EnergyTransferServiceList)
  IN IF v.VASList # <<>>
     THEN WriteBits(encodeServiceList(WriteBits(s3, 2, 0), v.VASList[1]), 1, 0)
     ELSE WriteBits(s3, 2, 1)

\* DecodeServiceDiscoveryRes(bs)
DecodeServiceDiscoveryRes(bs) == Call("DecodeServiceDiscoveryRes", <<bs>>)
DecodeServiceDiscoveryRes_body(bs) ==
  LET r1 == readHeader(bs)
      r2 == readEnumField(r1, 6)
      r3 == readBoolField(r2)
      r4 == decodeServiceList(Skip(r3, 1))
      r5 == ReadBits(r4, 2)
      v1 == decodeServiceList(r5)
      v2 == Skip(v1, 1)
      msg(vas) == [Header |-> r1.val, ResponseCode |-> mapEnumToResponseCode(r2.val),
                   ServiceRenegotiationSupported |-> r3.val,
                   EnergyTransferServiceList |-> r4.val, VASList |-> vas]
  IN IF r5.err # "ok" THEN r5
     ELSE IF r5.val = 0
     THEN (IF v2.err # "ok" THEN v2 ELSE [v2 EXCEPT !.val = msg(<<v1.val>>)])
     ELSE [r5 EXCEPT !.val = msg(<<>>)]

\* ----------------------------------------------------------------- DC_ACDP
\* EncodeDC_ACDPReq(bs, v)
EncodeDC_ACDPReq(bs, v) == Call("EncodeDC_ACDPReq", <<bs, v>>)
EncodeDC_ACDPReq_body(bs, v) ==
  LET s1 == writeEnumField(writeHeader(bs, v), 2, mapEVProcessingToEnum(v.EVProcessing))
  IN WriteBits(encodeRationalNumber(WriteBits(s1, 1, 0), v.EVTargetEnergyRequest), 1, 0)

\* DecodeDC_ACDPReq(bs)
DecodeDC_ACDPReq(bs) == Call("DecodeDC_ACDPReq", <<bs>>)
DecodeDC_ACDPReq_body(bs) ==
  LET r1 == readHeader(bs)
      r2 == readEnumField(r1, 2)
      r3 == decodeRationalNumber(Skip(r2, 1))
      r4 == Skip(r3, 1)
  IN IF r4.err # "ok" THEN r4
     ELSE [r4 EXCEPT !.val = [Header |-> r1.val,
              EVProcessing |-> mapEnumToEVProcessing(r2.val),
              EVTargetEnergyRequest |-> r3.val]]

\* EncodeDC_ACDPRes(bs, v)
EncodeDC_ACDPRes(bs, v) == Call("EncodeDC_ACDPRes", <<bs, v>>)
EncodeDC_ACDPRes_body(bs, v) ==
  LET s1 == writeEnumField(writeHeader(bs, v), 6, mapResponseCodeToEnum(v.ResponseCode))
      s2 == writeEnumField(s1, 2, mapEVSEProcessingToEnum(v.EVSEProcessing))
  IN WriteBits(s2, 1, 0)

\* DecodeDC_ACDPRes(bs)
DecodeDC_ACDPRes(bs) == Call("DecodeDC_ACDPRes", <<bs>>)
DecodeDC_ACDPRes_body(bs) ==
  LET r1 == readHeader(bs)
      r2 == readEnumField(r1, 6)
      r3 == readEnumField(r2, 2)
      r4 == Skip(r3, 1)
  IN IF r4.err # "ok" THEN r4
     ELSE [r4 EXCEPT !.val = [Header |-> r1.val,
              ResponseCode |-> mapEnumToResponseCode(r2.val),
              EVSEProcessing |-> mapEnumToEVSEProcessing(r3.val)]]

EncodeDC_ACDP_BPTReq(bs, v) == Call("EncodeDC_ACDP_BPTReq", <<bs, v>>)
EncodeDC_ACDP_BPTReq_body(bs, v) == EncodeDC_ACDPReq(bs, v)
DecodeDC_ACDP_BPTReq(bs) == Call("DecodeDC_ACDP_BPTReq", <<bs>>)
DecodeDC_ACDP_BPTReq_body(bs) == DecodeDC_ACDPReq(bs)
EncodeDC_ACDP_BPTRes(bs, v) == Call("EncodeDC_ACDP_BPTRes", <<bs, v>>)
EncodeDC_ACDP_BPTRes_body(bs, v) == EncodeDC_ACDPRes(bs, v)
DecodeDC_ACDP_BPTRes(bs) == Call("DecodeDC_ACDP_BPTRes", <<bs>>)
DecodeDC_ACDP_BPTRes_body(bs) == DecodeDC_ACDPRes(bs)

\* --------------------------------------------------------------------- WPT
EncodeWPT_AlignmentCheckReq(bs, v) == Call("EncodeWPT_AlignmentCheckReq", <<bs, v>>)
EncodeWPT_AlignmentCheckReq_body(bs, v) == EncodeHeaderOnly(bs, v)
DecodeWPT_AlignmentCheckReq(bs) == Call("DecodeWPT_AlignmentCheckReq", <<bs>>)
DecodeWPT_AlignmentCheckReq_body(bs) == DecodeHeaderOnly(bs)
EncodeWPT_FinePositioningReq(bs, v) == Call("EncodeWPT_FinePositioningReq", <<bs, v>>)
EncodeWPT_FinePositioningReq_body(bs, v) == EncodeHeaderOnly(bs, v)
DecodeWPT_FinePositioningReq(bs) == Call("DecodeWPT_FinePositioningReq", <<bs>>)
DecodeWPT_FinePositioningReq_body(bs) == DecodeHeaderOnly(bs)

\* the switch on v.AlignmentStatus; any other string leaves 0
mapAlignmentStatusToEnum(s) ==
  CASE s = "Aligned" -> 0 [] s = "NotAligned" -> 1 [] s = "InProgress" -> 2 [] OTHER -> 0

\* the switch on alignStatusVal
mapEnumToAlignmentStatus(n) ==
  CASE n = 0 -> "Aligned" [] n = 1 -> "NotAligned" [] n = 2 -> "InProgress"
    [] OTHER -> "NotAligned"

\* an optional offset: a 0 bit and the number, nothing when absent
writeOffset(bs, o) == Call("writeOffset", <<bs, o>>)
writeOffset_body(bs, o) ==
  IF o # <<>> THEN encodeRationalNumber(WriteBits(bs, 1, 0), o[1]) ELSE bs

\* EncodeWPT_AlignmentCheckRes(bs, v)
EncodeWPT_AlignmentCheckRes(bs, v) == Call("EncodeWPT_AlignmentCheckRes", <<bs, v>>)
EncodeWPT_AlignmentCheckRes_body(bs, v) ==
  LET s1 == writeEnumField(writeHeader(bs, v), 6, mapResponseCodeToEnum(v.ResponseCode))
      s2 == writeEnumField(s1, 2, mapAlignmentStatusToEnum(v.AlignmentStatus))
      s3 == writeOffset(writeOffset(writeOffset(s2, v.AlignmentOffset_X),
                                    v.AlignmentOffset_Y), v.AlignmentOffset_Z)
  IN WriteBits(s3, 1, 0)

\* DecodeWPT_AlignmentCheckRes(bs): a 0 bit announces X, then Y, then Z
DecodeWPT_AlignmentCheckRes(bs) == Call("DecodeWPT_AlignmentCheckRes", <<bs>>)
DecodeWPT_AlignmentCheckRes_body(bs) ==
  LET r1 == readHeader(bs)
      r2 == readEnumField(r1, 6)
      r3 == readEnumField(r2, 2)
      cx == ReadBits(r3, 1)
      x  == decodeRationalNumber(cx)
      cy == ReadBits(x, 1)
      y  == decodeRationalNumber(cy)
      cz == ReadBits(y, 1)
      z  == decodeRationalNumber(cz)
      e  == Skip(z, 1)
      res(ox, oy, oz) == [Header |-> r1.val, ResponseCode |-> mapEnumToResponseCode(r2.val),
                          AlignmentStatus |-> mapEnumToAlignmentStatus(r3.val),
                          AlignmentOffset_X |-> ox, AlignmentOffset_Y |-> oy,
                          AlignmentOffset_Z |-> oz]
  IN IF cx.err # "ok" THEN cx
     ELSE IF cx.val # 0 THEN [cx EXCEPT !.val = res(<<>>, <<>>, <<>>)]
     ELSE IF cy.err # "ok" THEN cy
     ELSE IF cy.val # 0 THEN [cy EXCEPT !.val = res(<<x.val>>, <<>>, <<>>)]
     ELSE IF cz.err # "ok" THEN cz
     ELSE IF cz.val # 0 THEN [cz EXCEPT !.val = res(<<x.val>>, <<y.val>>, <<>>)]
     ELSE IF e.err # "ok" THEN e
     ELSE [e EXCEPT !.val = res(<<x.val>>, <<y.val>>, <<z.val>>)]

\* the switch on v.PositioningStatus
mapPositioningStatusToEnum(s) ==
  CASE s = "Complete" -> 0 [] s = "InProgress" -> 1 [] s = "Failed" -> 2 [] OTHER -> 0

\* the switch on posStatusVal
mapEnumToPositioningStatus(n) ==
  CASE n = 0 -> "Complete" [] n = 1 -> "InProgress" [] n = 2 -> "Failed"
    [] OTHER -> "InProgress"

\* EncodeWPT_FinePositioningRes(bs, v)
EncodeWPT_FinePositioningRes(bs, v) == Call("EncodeWPT_FinePositioningRes", <<bs, v>>)
EncodeWPT_FinePositioningRes_body(bs, v) ==
  LET s1 == writeEnumField(writeHeader(bs, v), 6, mapResponseCodeToEnum(v.ResponseCode))
      s2 == writeEnumField(s1, 2, mapPositioningStatusToEnum(v.PositioningStatus))
  IN WriteBits(s2, 1, 0)

\* DecodeWPT_FinePositioningRes(bs)
DecodeWPT_FinePositioningRes(bs) == Call("DecodeWPT_FinePositioningRes", <<bs>>)
DecodeWPT_FinePositioningRes_body(bs) ==
  LET r1 == readHeader(bs)
      r2 == readEnumField(r1, 6)
      r3 == readEnumField(r2, 2)
      r4 == Skip(r3, 1)
  IN IF r4.err # "ok" THEN r4
     ELSE [r4 EXCEPT !.val = [Header |-> r1.val,
              ResponseCode |-> mapEnumToResponseCode(r2.val),
              PositioningStatus |-> mapEnumToPositioningStatus(r3.val)]]

\* EncodeWPT_ChargeLoopReq(bs, v)
EncodeWPT_ChargeLoopReq(bs, v) == Call("EncodeWPT_ChargeLoopReq", <<bs, v>>)
EncodeWPT_ChargeLoopReq_body(bs, v) ==
  WriteBits(writeEnumField(writeHeader(bs, v), 2, mapEVProcessingToEnum(v.EVProcessing)), 1, 0)

\* DecodeWPT_ChargeLoopReq(bs)
DecodeWPT_ChargeLoopReq(bs) == Call("DecodeWPT_ChargeLoopReq", <<bs>>)
DecodeWPT_ChargeLoopReq_body(bs) ==
  LET r1 == readHeader(bs)
      r2 == readEnumField(r1, 2)
      r3 == Skip(r2, 1)
  IN IF r3.err # "ok" THEN r3
     ELSE [r3 EXCEPT !.val = [Header |-> r1.val,
              EVProcessing |-> mapEnumToEVProcessing(r2.val)]]

EncodeWPT_ChargeLoopRes(bs, v) == Call("EncodeWPT_ChargeLoopRes", <<bs, v>>)
EncodeWPT_ChargeLoopRes_body(bs, v) == EncodeDC_ACDPRes(bs, v)
DecodeWPT_ChargeLoopRes(bs) == Call("DecodeWPT_ChargeLoopRes", <<bs>>)
DecodeWPT_ChargeLoopRes_body(bs) == DecodeDC_ACDPRes(bs)

EncodeCLReqControlMode(bs, v) == Call("EncodeCLReqControlMode", <<bs, v>>)
EncodeCLReqControlMode_body(bs, v) == EncodeHeaderOnly(bs, v)
DecodeCLReqControlMode(bs) == Call("DecodeCLReqControlMode", <<bs>>)
DecodeCLReqControlMode_body(bs) == DecodeHeaderOnly(bs)
EncodeCLResControlMode(bs, v) == Call("EncodeCLResControlMode", <<bs, v>>)
EncodeCLResControlMode_body(bs, v) == EncodeHeaderOnly(bs, v)
DecodeCLResControlMode(bs) == Call("DecodeCLResControlMode", <<bs>>)
DecodeCLResControlMode_body(bs) == DecodeHeaderOnly(bs)

\* ------------------------------------------------ VehicleCheckIn/CheckOutReq
\* EncodeVehicleCheckInReq(bs, v)
EncodeVehicleCheckInReq(bs, v) == Call("EncodeVehicleCheckInReq", <<bs, v>>)
EncodeVehicleCheckInReq_body(bs, v) ==
  LET s1 == writeStringField(writeHeader(bs, v), v.EVCheckInStatus)
      s2 == IF v.ParkingMethod # <<>>
            THEN writeStringField(WriteBits(s1, 1, 1), v.ParkingMethod[1])
            ELSE WriteBits(s1, 1, 0)
  IN WriteBits(s2, 1, 0)

\* DecodeVehicleCheckInReq(bs)
DecodeVehicleCheckInReq(bs) == Call("DecodeVehicleCheckInReq", <<bs>>)
DecodeVehicleCheckInReq_body(bs) ==
  LET r1 == readHeader(bs)
      r2 == readStringField(r1)
      p  == ReadBits(r2, 1)
      r3 == IF p.err = "ok" /\ p.val = 1 THEN readStringField(p) ELSE p
      r4 == Skip(r3, 1)
  IN IF r4.err # "ok" THEN r4
     ELSE [r4 EXCEPT !.val = [Header |-> r1.val, EVCheckInStatus |-> r2.val,
              ParkingMethod |-> IF p.val = 1 THEN <<r3.val>> ELSE <<>>]]

\* START, marker, unsigned-var, END
writeVarField(bs, g) == Call("writeVarField", <<bs, g>>)
writeVarField_body(bs, g) ==
  WriteBits(WriteUnsignedVar(WriteBits(WriteBits(bs, 1, 0), 1, 0), g), 1, 0)

readVarField(bs) == Call("readVarField", <<bs>>)
readVarField_body(bs) ==
  LET r1 == ReadUnsignedVar(Skip(Skip(bs, 1), 1))
      r2 == Skip(r1, 1)
  IN IF r2.err # "ok" THEN r2 ELSE [r2 EXCEPT !.val = r1.val]

\* EncodeVehicleCheckOutReq(bs, v)
EncodeVehicleCheckOutReq(bs, v) == Call("EncodeVehicleCheckOutReq", <<bs, v>>)
EncodeVehicleCheckOutReq_body(bs, v) ==
  WriteBits(writeVarField(writeStringField(writeHeader(bs, v), v.EVCheckOutStatus),
                          v.CheckOutTime), 1, 0)

\* DecodeVehicleCheckOutReq(bs)
DecodeVehicleCheckOutReq(bs) == Call("DecodeVehicleCheckOutReq", <<bs>>)
DecodeVehicleCheckOutReq_body(bs) ==
  LET r1 == readHeader(bs)
      r2 == readStringField(r1)
      r3 == readVarField(r2)
      r4 == Skip(r3, 1)
  IN IF r4.err # "ok" THEN r4
     ELSE [r4 EXCEPT !.val = [Header |-> r1.val, EVCheckOutStatus |-> r2.val,
              CheckOutTime |-> r3.val]]

\* ----------------------------------------------------- ServiceSelectionReq
\* encodeSelectedService(bs, v)
encodeSelectedService(bs, v) == Call("encodeSelectedService", <<bs, v>>)
encodeSelectedService_body(bs, v) ==
  LET s1 == writeUint16Field(bs, v.ServiceID)
  IN IF v.ParameterSetID # <<>>
     THEN writeUint16Field(WriteBits(s1, 1, 1), v.ParameterSetID[1])
     ELSE WriteBits(s1, 1, 0)

\* decodeSelectedService(bs)
decodeSelectedService(bs) == Call("decodeSelectedService", <<bs>>)
decodeSelectedService_body(bs) ==
  LET r1 == readUint16Field(bs)
      p  == ReadBits(r1, 1)
      r2 == IF p.err = "ok" /\ p.val = 1 THEN readUint16Field(p) ELSE p
  IN IF r2.err # "ok" THEN r2
     ELSE [r2 EXCEPT !.val = [ServiceID |-> r1.val,
              ParameterSetID |-> IF p.val = 1 THEN <<r2.val>> ELSE <<>>]]

RECURSIVE EncodeSelectedServices(_, _, _)
EncodeSelectedServices(bs, ss, i) ==
  IF i > Len(ss) \/ bs.err # "ok" THEN bs
  ELSE EncodeSelectedServices(WriteBits(encodeSelectedService(WriteBits(bs, 1, 0), ss[i]), 1, 0),
                              ss, i + 1)

\* encodeSelectedServiceList(bs, v)
encodeSelectedServiceList(bs, v) == Call("encodeSelectedServiceList", <<bs, v>>)
encodeSelectedServiceList_body(bs, v) ==
  EncodeSelectedServices(WriteUnsignedVar(bs, U64(Len(v.SelectedServices))),
                         v.SelectedServices, 1)

RECURSIVE DecodeSelectedServices(_, _, _)
DecodeSelectedServices(bs, count, acc) ==
  IF bs.err # "ok" THEN bs
  ELSE IF Len(acc) >= count THEN [bs EXCEPT !.val = acc]
  ELSE LET r1 == decodeSelectedService(Skip(bs, 1))
           r2 == Skip(r1, 1)
       IN IF r2.err # "ok" THEN r2 ELSE DecodeSelectedServices(Turn(bs, r2), count, Append(acc, r1.val))

\* decodeSelectedServiceList(bs)
decodeSelectedServiceList(bs) == Call("decodeSelectedServiceList", <<bs>>)
decodeSelectedServiceList_body(bs) ==
  LET r1 == ReadUnsignedVar(bs)
      r2 == IF r1.err # "ok" THEN r1
            ELSE DecodeSelectedServices(make(r1, r1.val), CountOf(r1.val), <<>>)
  IN IF r2.err # "ok" THEN r2 ELSE [r2 EXCEPT !.val = [SelectedServices |-> r2.val]]

\* EncodeServiceSelectionReq(bs, v)
EncodeServiceSelectionReq(bs, v) == Call("EncodeServiceSelectionReq", <<bs, v>>)
EncodeServiceSelectionReq_body(bs, v) ==
  LET s1 == WriteBits(encodeSelectedService(WriteBits(writeHeader(bs, v), 1, 0),
                                            v.SelectedEnergyTransferService), 1, 0)
      s2 == IF v.SelectedVASList # <<>>
            THEN WriteBits(encodeSelectedServiceList(WriteBits(WriteBits(s1, 1, 1), 1, 0),
                                                     v.SelectedVASList[1]), 1, 0)
            ELSE WriteBits(s1, 1, 0)
  IN WriteBits(s2, 1, 0)

\* DecodeServiceSelectionReq(bs)
DecodeServiceSelectionReq(bs) == Call("DecodeServiceSelectionReq", <<bs>>)
DecodeServiceSelectionReq_body(bs) ==
  LET r1 == readHeader(bs)
      r2 == decodeSelectedService(Skip(r1, 1))
      p  == ReadBits(Skip(r2, 1), 1)
      l1 == decodeSelectedServiceList(Skip(p, 1))
      r3 == IF p.err = "ok" /\ p.val = 1 THEN Skip(l1, 1) ELSE p
      r4 == Skip(r3, 1)
  IN IF r4.err # "ok" THEN r4
     ELSE [r4 EXCEPT !.val = [Header |-> r1.val, SelectedEnergyTransferService |-> r2.val,
              SelectedVASList |-> IF p.val = 1 THEN <<l1.val>> ELSE <<>>]]

\* ------------------------------------------ PowerDeliveryRes, VehicleCheck*Res
\* EncodePowerDeliveryRes(bs, v)
EncodePowerDeliveryRes(bs, v) == Call("EncodePowerDeliveryRes", <<bs, v>>)
EncodePowerDeliveryRes_body(bs, v) ==
  LET s1 == writeEnumField(writeHeader(bs, v), 6, mapResponseCodeToEnum(v.ResponseCode))
      s2 == IF v.EVSEStatus # <<>>
            THEN WriteBits(writeString(writeUint16(WriteBits(WriteBits(s1, 1, 1), 1, 0),
                                                   v.EVSEStatus[1].NotificationMaxDelay),
                                       v.EVSEStatus[1].EVSENotification), 1, 0)
            ELSE WriteBits(s1, 1, 0)
  IN WriteBits(s2, 1, 0)

\* DecodePowerDeliveryRes(bs)
DecodePowerDeliveryRes(bs) == Call("DecodePowerDeliveryRes", <<bs>>)
DecodePowerDeliveryRes_body(bs) ==
  LET r1 == readHeader(bs)
      r2 == readEnumField(r1, 6)
      p  == ReadBits(r2, 1)
      n1 == readUint16(Skip(p, 1))
      n2 == readString(n1)
      r3 == IF p.err = "ok" /\ p.val = 1 THEN Skip(n2, 1) ELSE p
      r4 == Skip(r3, 1)
  IN IF r4.err # "ok" THEN r4
     ELSE [r4 EXCEPT !.val = [Header |-> r1.val,
              ResponseCode |-> mapEnumToResponseCode(r2.val),
              EVSEStatus |-> IF p.val = 1
                             THEN <<[NotificationMaxDelay |-> n1.val,
                                     EVSENotification |-> n2.val]>>
                             ELSE <<>>]]

\* EncodeVehicleCheckInRes(bs, v)
EncodeVehicleCheckInRes(bs, v) == Call("EncodeVehicleCheckInRes", <<bs, v>>)
EncodeVehicleCheckInRes_body(bs, v) ==
  LET s1 == writeEnumField(writeHeader(bs, v), 6, mapResponseCodeToEnum(v.ResponseCode))
      s2 == IF v.VehicleCheckInResult # <<>>
            THEN writeString(WriteBits(s1, 1, 1), v.VehicleCheckInResult[1])
            ELSE WriteBits(s1, 1, 0)
  IN WriteBits(s2, 1, 0)

\* DecodeVehicleCheckInRes(bs)
DecodeVehicleCheckInRes(bs) == Call("DecodeVehicleCheckInRes", <<bs>>)
DecodeVehicleCheckInRes_body(bs) ==
  LET r1 == readHeader(bs)
      r2 == readEnumField(r1, 6)
      p  == ReadBits(r2, 1)
      r3 == IF p.err = "ok" /\ p.val = 1 THEN readString(p) ELSE p
      r4 == Skip(r3, 1)
  IN IF r4.err # "ok" THEN r4
     ELSE [r4 EXCEPT !.val = [Header |-> r1.val,
              ResponseCode |-> mapEnumToResponseCode(r2.val),
              VehicleCheckInResult |-> IF p.val = 1 THEN <<r3.val>> ELSE <<>>]]

\* EncodeVehicleCheckOutRes(bs, v)
EncodeVehicleCheckOutRes(bs, v) == Call("EncodeVehicleCheckOutRes", <<bs, v>>)
EncodeVehicleCheckOutRes_body(bs, v) ==
  LET s1 == writeEnumField(writeHeader(bs, v), 6, mapResponseCodeToEnum(v.ResponseCode))
  IN WriteBits(writeStringField(s1, v.EVSECheckOutStatus), 1, 0)

\* DecodeVehicleCheckOutRes(bs)
DecodeVehicleCheckOutRes(bs) == Call("DecodeVehicleCheckOutRes", <<bs>>)
DecodeVehicleCheckOutRes_body(bs) ==
  LET r1 == readHeader(bs)
      r2 == readEnumField(r1, 6)
      r3 == readStringField(r2)
      r4 == Skip(r3, 1)
  IN IF r4.err # "ok" THEN r4
     ELSE [r4 EXCEPT !.val = [Header |-> r1.val,
              ResponseCode |-> mapEnumToResponseCode(r2.val),
              EVSECheckOutStatus |-> r3.val]]

\* ---------------------------------------------------------- ScheduleExchange
\* EncodeScheduleExchangeReq(bs, v)
EncodeScheduleExchangeReq(bs, v) == Call("EncodeScheduleExchangeReq", <<bs, v>>)
EncodeScheduleExchangeReq_body(bs, v) ==
  WriteBits(writeUint16Field(writeHeader(bs, v), v.MaximumSupportingPoints), 1, 0)

\* DecodeScheduleExchangeReq(bs)
DecodeScheduleExchangeReq(bs) == Call("DecodeScheduleExchangeReq", <<bs>>)
DecodeScheduleExchangeReq_body(bs) ==
  LET r1 == readHeader(bs)
      r2 == readUint16Field(r1)
      r3 == Skip(r2, 1)
  IN IF r3.err # "ok" THEN r3
     ELSE [r3 EXCEPT !.val = [Header |-> r1.val, MaximumSupportingPoints |-> r2.val]]

EncodeScheduleExchangeRes(bs, v) == Call("EncodeScheduleExchangeRes", <<bs, v>>)
EncodeScheduleExchangeRes_body(bs, v) == EncodeDC_ACDPRes(bs, v)
DecodeScheduleExchangeRes(bs) == Call("DecodeScheduleExchangeRes", <<bs>>)
DecodeScheduleExchangeRes_body(bs) == DecodeDC_ACDPRes(bs)

\* --------------------------------------------------- string lists with count
RECURSIVE EncodeStrings(_, _, _)
EncodeStrings(bs, arr, i) ==
  IF i > Len(arr) \/ bs.err # "ok" THEN bs
  ELSE EncodeStrings(writeStringField(bs, arr[i]), arr, i + 1)

\* START list, count, the strings, END list
writeStringList(bs, arr) == Call("writeStringList", <<bs, arr>>)
writeStringList_body(bs, arr) ==
  WriteBits(EncodeStrings(WriteUnsignedVar(WriteBits(bs, 1, 0), U64(Len(arr))), arr, 1), 1, 0)

RECURSIVE DecodeStrings(_, _, _)
DecodeStrings(bs, count, acc) ==
  IF bs.err # "ok" THEN bs
  ELSE IF Len(acc) >= count THEN [bs EXCEPT !.val = acc]
  ELSE LET r1 == readStringField(bs)
       IN IF r1.err # "ok" THEN r1 ELSE DecodeStrings(Turn(bs, r1), count, Append(acc, r1.val))

\* `make([]string, count)` with the count as it was read
readStringList(bs) == Call("readStringList", <<bs>>)
readStringList_body(bs) ==
  LET r1 == ReadUnsignedVar(Skip(bs, 1))
      r2 == IF r1.err # "ok" THEN r1
            ELSE DecodeStrings(make(r1, r1.val), CountOf(r1.val), <<>>)
      r3 == Skip(r2, 1)
  IN IF r3.err # "ok" THEN r3 ELSE [r3 EXCEPT !.val = r2.val]

\* --------------------------------------------------- AuthorizationSetupRes
\* encodePnC_ASResAuthorizationMode(bs, v)
encodePnC_ASResAuthorizationMode(bs, v) == Call("encodePnC_ASResAuthorizationMode", <<bs, v>>)
encodePnC_ASResAuthorizationMode_body(bs, v) ==
  writeStringList(writeHexField(bs, v.GenChallenge), v.SupportedProviders)

\* decodePnC_ASResAuthorizationMode(bs)
decodePnC_ASResAuthorizationMode(bs) == Call("decodePnC_ASResAuthorizationMode", <<bs>>)
decodePnC_ASResAuthorizationMode_body(bs) ==
  LET r1 == readHexField(bs)
      r2 == readStringList(r1)
  IN IF r2.err # "ok" THEN r2
     ELSE [r2 EXCEPT !.val = [GenChallenge |-> r1.val, SupportedProviders |-> r2.val]]

\* EncodeAuthorizationSetupRes(bs, v); the EIM mode has no fields
EncodeAuthorizationSetupRes(bs, v) == Call("EncodeAuthorizationSetupRes", <<bs, v>>)
EncodeAuthorizationSetupRes_body(bs, v) ==
  LET s1 == writeEnumField(writeHeader(bs, v), 6, mapResponseCodeToEnum(v.ResponseCode))
      s2 == writeStringList(s1, v.AuthorizationServices)
      s3 == writeEnumField(s2, 1, BoolBit(v.CertificateInstallationService))
  IN IF v.EIM_ASResAuthorizationMode # <<>>
     THEN WriteBits(WriteBits(WriteBits(WriteBits(s3, 2, 0), 1, 0), 1, 0), 1, 0)
     ELSE IF v.PnC_ASResAuthorizationMode # <<>>
     THEN WriteBits(WriteBits(encodePnC_ASResAuthorizationMode(
                      WriteBits(WriteBits(s3, 2, 1), 1, 0), v.PnC_ASResAuthorizationMode[1]),
                    1, 0), 1, 0)
     ELSE WriteBits(s3, 2, 2)

\* DecodeAuthorizationSetupRes(bs)
DecodeAuthorizationSetupRes(bs) == Call("DecodeAuthorizationSetupRes", <<bs>>)
DecodeAuthorizationSetupRes_body(bs) ==
  LET r1 == readHeader(bs)
      r2 == readEnumField(r1, 6)
      r3 == readStringList(r2)
      r4 == readEnumField(r3, 1)
      r5 == ReadBits(r4, 2)
      e1 == Skip(Skip(Skip(r5, 1), 1), 1)
      q1 == decodePnC_ASResAuthorizationMode(Skip(r5, 1))
      q2 == Skip(Skip(q1, 1), 1)
      msg(eim, pnc) == [Header |-> r1.val, ResponseCode |-> mapEnumToResponseCode(r2.val),
                        AuthorizationServices |-> r3.val,
                        CertificateInstallationService |-> (r4.val = 1),
                        EIM_ASResAuthorizationMode |-> eim, PnC_ASResAuthorizationMode |-> pnc]
  IN IF r5.err # "ok" THEN r5
     ELSE IF r5.val = 0
     THEN (IF e1.err # "ok" THEN e1 ELSE [e1 EXCEPT !.val = msg(<<"EIM">>, <<>>)])
     ELSE IF r5.val = 1
     THEN (IF q2.err # "ok" THEN q2 ELSE [q2 EXCEPT !.val = msg(<<>>, <<q1.val>>)])
     ELSE [r5 EXCEPT !.val = msg(<<>>, <<>>)]

\* ------------------------------------------------- CertificateInstallation
\* START, CertificateChain, END
writeChainField(bs, c) == Call("writeChainField", <<bs, c>>)
writeChainField_body(bs, c) == WriteBits(encodeCertificateChain(WriteBits(bs, 1, 0), c), 1, 0)

readChainField(bs) == Call("readChainField", <<bs>>)
readChainField_body(bs) ==
  LET r1 == decodeCertificateChain(Skip(bs, 1))
      r2 == Skip(r1, 1)
  IN IF r2.err # "ok" THEN r2 ELSE [r2 EXCEPT !.val = r1.val]

\* EncodeCertificateInstallationReq(bs, v)
EncodeCertificateInstallationReq(bs, v) == Call("EncodeCertificateInstallationReq", <<bs, v>>)
EncodeCertificateInstallationReq_body(bs, v) ==
  WriteBits(writeStringList(writeChainField(writeHeader(bs, v), v.OEMProvisioningCertChain),
                            v.ListOfRootCertificateIDs), 1, 0)

\* DecodeCertificateInstallationReq(bs)
DecodeCertificateInstallationReq(bs) == Call("DecodeCertificateInstallationReq", <<bs>>)
DecodeCertificateInstallationReq_body(bs) ==
  LET r1 == readHeader(bs)
      r2 == readChainField(r1)
      r3 == readStringList(r2)
      r4 == Skip(r3, 1)
  IN IF r4.err # "ok" THEN r4
     ELSE [r4 EXCEPT !.val = [Header |-> r1.val, OEMProvisioningCertChain |-> r2.val,
              ListOfRootCertificateIDs |-> r3.val]]

\* EncodeCertificateInstallationRes(bs, v)
EncodeCertificateInstallationRes(bs, v) == Call("EncodeCertificateInstallationRes", <<bs, v>>)
EncodeCertificateInstallationRes_body(bs, v) ==
  LET s1 == writeEnumField(writeHeader(bs, v), 6, mapResponseCodeToEnum(v.ResponseCode))
      s2 == writeEnumField(s1, 2, mapEVSEProcessingToEnum(v.EVSEProcessing))
      s3 == writeStringField(writeChainField(s2, v.CPSCertificateChain),
                             v.ContractSignatureEncryptedPrivateKey)
      s4 == writeChainField(writeHexField(s3, v.DHPublicKey), v.ContractCertificateChain)
  IN WriteBits(s4, 1, 0)

\* DecodeCertificateInstallationRes(bs)
DecodeCertificateInstallationRes(bs) == Call("DecodeCertificateInstallationRes", <<bs>>)
DecodeCertificateInstallationRes_body(bs) ==
  LET r1 == readHeader(bs)
      r2 == readEnumField(r1, 6)
      r3 == readEnumField(r2, 2)
      r4 == readChainField(r3)
      r5 == readStringField(r4)
      r6 == readHexField(r5)
      r7 == readChainField(r6)
      r8 == Skip(r7, 1)
  IN IF r8.err # "ok" THEN r8
     ELSE [r8 EXCEPT !.val = [Header |-> r1.val,
              ResponseCode |-> mapEnumToResponseCode(r2.val),
              EVSEProcessing |-> mapEnumToEVSEProcessing(r3.val),
              CPSCertificateChain |-> r4.val,
              ContractSignatureEncryptedPrivateKey |-> r5.val,
              DHPublicKey |-> r6.val, ContractCertificateChain |-> r7.val]]

\* a top-level prefix that carries the same event code for every message
writeTopLevelCodeZero(bs, code) == WriteBits(WriteBits(bs, 8, 128), 6, 0)

\* ------------------------------------------------------ top-level encoders
\* the EXI simple header 0x80 and the 6-bit event code of a message
writeTopLevel(bs, code) == Call("writeTopLevel", <<bs, code>>)
writeTopLevel_body(bs, code) == WriteBits(WriteBits(bs, 8, 128), 6, code)

EncodeTopLevelSessionSetupReq(bs, v) == Call("EncodeTopLevelSessionSetupReq", <<bs, v>>)
EncodeTopLevelSessionSetupReq_body(bs, v) == EncodeSessionSetupReq(writeTopLevel(bs, 35), v)
EncodeTopLevelSessionSetupRes(bs, v) == Call("EncodeTopLevelSessionSetupRes", <<bs, v>>)
EncodeTopLevelSessionSetupRes_body(bs, v) == EncodeSessionSetupRes(writeTopLevel(bs, 36), v)
EncodeTopLevelSessionStopReq(bs, v) == Call("EncodeTopLevelSessionStopReq", <<bs, v>>)
EncodeTopLevelSessionStopReq_body(bs, v) == EncodeSessionStopReq(writeTopLevel(bs, 37), v)
EncodeTopLevelSessionStopRes(bs, v) == Call("EncodeTopLevelSessionStopRes", <<bs, v>>)
EncodeTopLevelSessionStopRes_body(bs, v) == EncodeSessionStopRes(writeTopLevel(bs, 38), v)
EncodeTopLevelServiceDiscoveryReq(bs, v) == Call("EncodeTopLevelServiceDiscoveryReq", <<bs, v>>)
EncodeTopLevelServiceDiscoveryReq_body(bs, v) == EncodeServiceDiscoveryReq(writeTopLevel(bs, 31), v)
EncodeTopLevelServiceDiscoveryRes(bs, v) == Call("EncodeTopLevelServiceDiscoveryRes", <<bs, v>>)
EncodeTopLevelServiceDiscoveryRes_body(bs, v) == EncodeServiceDiscoveryRes(writeTopLevel(bs, 32), v)
EncodeTopLevelServiceDetailReq(bs, v) == Call("EncodeTopLevelServiceDetailReq", <<bs, v>>)
EncodeTopLevelServiceDetailReq_body(bs, v) == EncodeServiceDetailReq(writeTopLevel(bs, 29), v)
EncodeTopLevelServiceDetailRes(bs, v) == Call("EncodeTopLevelServiceDetailRes", <<bs, v>>)
EncodeTopLevelServiceDetailRes_body(bs, v) == EncodeServiceDetailRes(writeTopLevel(bs, 30), v)
EncodeTopLevelServiceSelectionReq(bs, v) == Call("EncodeTopLevelServiceSelectionReq", <<bs, v>>)
EncodeTopLevelServiceSelectionReq_body(bs, v) == EncodeServiceSelectionReq(writeTopLevel(bs, 33), v)
EncodeTopLevelServiceSelectionRes(bs, v) == Call("EncodeTopLevelServiceSelectionRes", <<bs, v>>)
EncodeTopLevelServiceSelectionRes_body(bs, v) == EncodeServiceSelectionRes(writeTopLevel(bs, 34), v)
EncodeTopLevelAuthorizationReq(bs, v) == Call("EncodeTopLevelAuthorizationReq", <<bs, v>>)
EncodeTopLevelAuthorizationReq_body(bs, v) == EncodeAuthorizationReq(writeTopLevel(bs, 0), v)
EncodeTopLevelAuthorizationRes(bs, v) == Call("EncodeTopLevelAuthorizationRes", <<bs, v>>)
EncodeTopLevelAuthorizationRes_body(bs, v) == EncodeAuthorizationRes(writeTopLevel(bs, 1), v)
EncodeTopLevelAuthorizationSetupReq(bs, v) == Call("EncodeTopLevelAuthorizationSetupReq", <<bs, v>>)
EncodeTopLevelAuthorizationSetupReq_body(bs, v) == EncodeAuthorizationSetupReq(writeTopLevel(bs, 2), v)
EncodeTopLevelAuthorizationSetupRes(bs, v) == Call("EncodeTopLevelAuthorizationSetupRes", <<bs, v>>)
EncodeTopLevelAuthorizationSetupRes_body(bs, v) == EncodeAuthorizationSetupRes(writeTopLevel(bs, 3), v)
EncodeTopLevelPowerDeliveryReq(bs, v) == Call("EncodeTopLevelPowerDeliveryReq", <<bs, v>>)
EncodeTopLevelPowerDeliveryReq_body(bs, v) == EncodePowerDeliveryReq(writeTopLevel(bs, 21), v)
EncodeTopLevelPowerDeliveryRes(bs, v) == Call("EncodeTopLevelPowerDeliveryRes", <<bs, v>>)
EncodeTopLevelPowerDeliveryRes_body(bs, v) == EncodePowerDeliveryRes(writeTopLevel(bs, 22), v)
EncodeTopLevelScheduleExchangeReq(bs, v) == Call("EncodeTopLevelScheduleExchangeReq", <<bs, v>>)
EncodeTopLevelScheduleExchangeReq_body(bs, v) == EncodeScheduleExchangeReq(writeTopLevel(bs, 27), v)
EncodeTopLevelScheduleExchangeRes(bs, v) == Call("EncodeTopLevelScheduleExchangeRes", <<bs, v>>)
EncodeTopLevelScheduleExchangeRes_body(bs, v) == EncodeScheduleExchangeRes(writeTopLevel(bs, 28), v)
EncodeTopLevelMeteringConfirmationReq(bs, v) == Call("EncodeTopLevelMeteringConfirmationReq", <<bs, v>>)
EncodeTopLevelMeteringConfirmationReq_body(bs, v) == EncodeMeteringConfirmationReq(writeTopLevel(bs, 16), v)
EncodeTopLevelMeteringConfirmationRes(bs, v) == Call("EncodeTopLevelMeteringConfirmationRes", <<bs, v>>)
EncodeTopLevelMeteringConfirmationRes_body(bs, v) == EncodeMeteringConfirmationRes(writeTopLevel(bs, 17), v)
EncodeTopLevelCertificateInstallationReq(bs, v) == Call("EncodeTopLevelCertificateInstallationReq", <<bs, v>>)
EncodeTopLevelCertificateInstallationReq_body(bs, v) == EncodeCertificateInstallationReq(writeTopLevel(bs, 7), v)
EncodeTopLevelCertificateInstallationRes(bs, v) == Call("EncodeTopLevelCertificateInstallationRes", <<bs, v>>)
EncodeTopLevelCertificateInstallationRes_body(bs, v) == EncodeCertificateInstallationRes(writeTopLevel(bs, 8), v)
EncodeTopLevelVehicleCheckInReq(bs, v) == Call("EncodeTopLevelVehicleCheckInReq", <<bs, v>>)
EncodeTopLevelVehicleCheckInReq_body(bs, v) == EncodeVehicleCheckInReq(writeTopLevel(bs, 49), v)
EncodeTopLevelVehicleCheckInRes(bs, v) == Call("EncodeTopLevelVehicleCheckInRes", <<bs, v>>)
EncodeTopLevelVehicleCheckInRes_body(bs, v) == EncodeVehicleCheckInRes(writeTopLevel(bs, 50), v)
EncodeTopLevelVehicleCheckOutReq(bs, v) == Call("EncodeTopLevelVehicleCheckOutReq", <<bs, v>>)
EncodeTopLevelVehicleCheckOutReq_body(bs, v) == EncodeVehicleCheckOutReq(writeTopLevel(bs, 51), v)
\* a top-level encoder that writes the earlier code of VehicleCheckOutRes
EncodeTopLevelVehicleCheckOutResLegacy(bs, v) ==
  EncodeVehicleCheckOutRes(writeTopLevel(bs, 45), v)
EncodeTopLevelVehicleCheckOutRes(bs, v) == Call("EncodeTopLevelVehicleCheckOutRes", <<bs, v>>)
EncodeTopLevelVehicleCheckOutRes_body(bs, v) == EncodeVehicleCheckOutRes(writeTopLevel(bs, 52), v)
EncodeTopLevelCLReqControlMode(bs, v) == Call("EncodeTopLevelCLReqControlMode", <<bs, v>>)
EncodeTopLevelCLReqControlMode_body(bs, v) == EncodeCLReqControlMode(writeTopLevel(bs, 4), v)
EncodeTopLevelCLResControlMode(bs, v) == Call("EncodeTopLevelCLResControlMode", <<bs, v>>)
EncodeTopLevelCLResControlMode_body(bs, v) == EncodeCLResControlMode(writeTopLevel(bs, 5), v)
EncodeTopLevelWPT_AlignmentCheckReq(bs, v) == Call("EncodeTopLevelWPT_AlignmentCheckReq", <<bs, v>>)
EncodeTopLevelWPT_AlignmentCheckReq_body(bs, v) == EncodeWPT_AlignmentCheckReq(writeTopLevel(bs, 53), v)
EncodeTopLevelWPT_AlignmentCheckRes(bs, v) == Call("EncodeTopLevelWPT_AlignmentCheckRes", <<bs, v>>)
EncodeTopLevelWPT_AlignmentCheckRes_body(bs, v) == EncodeWPT_AlignmentCheckRes(writeTopLevel(bs, 54), v)
EncodeTopLevelWPT_FinePositioningReq(bs, v) == Call("EncodeTopLevelWPT_FinePositioningReq", <<bs, v>>)
EncodeTopLevelWPT_FinePositioningReq_body(bs, v) == EncodeWPT_FinePositioningReq(writeTopLevel(bs, 55), v)
EncodeTopLevelWPT_FinePositioningRes(bs, v) == Call("EncodeTopLevelWPT_FinePositioningRes", <<bs, v>>)
EncodeTopLevelWPT_FinePositioningRes_body(bs, v) == EncodeWPT_FinePositioningRes(writeTopLevel(bs, 56), v)
EncodeTopLevelWPT_ChargeLoopReq(bs, v) == Call("EncodeTopLevelWPT_ChargeLoopReq", <<bs, v>>)
EncodeTopLevelWPT_ChargeLoopReq_body(bs, v) == EncodeWPT_ChargeLoopReq(writeTopLevel(bs, 57), v)
EncodeTopLevelWPT_ChargeLoopRes(bs, v) == Call("EncodeTopLevelWPT_ChargeLoopRes", <<bs, v>>)
EncodeTopLevelWPT_ChargeLoopRes_body(bs, v) == EncodeWPT_ChargeLoopRes(writeTopLevel(bs, 58), v)
EncodeTopLevelDC_ACDPReq(bs, v) == Call("EncodeTopLevelDC_ACDPReq", <<bs, v>>)
EncodeTopLevelDC_ACDPReq_body(bs, v) == EncodeDC_ACDPReq(writeTopLevel(bs, 59), v)
EncodeTopLevelDC_ACDPRes(bs, v) == Call("EncodeTopLevelDC_ACDPRes", <<bs, v>>)
EncodeTopLevelDC_ACDPRes_body(bs, v) == EncodeDC_ACDPRes(writeTopLevel(bs, 60), v)
EncodeTopLevelDC_ACDP_BPTReq(bs, v) == Call("EncodeTopLevelDC_ACDP_BPTReq", <<bs, v>>)
EncodeTopLevelDC_ACDP_BPTReq_body(bs, v) == EncodeDC_ACDP_BPTReq(writeTopLevel(bs, 61), v)
EncodeTopLevelDC_ACDP_BPTRes(bs, v) == Call("EncodeTopLevelDC_ACDP_BPTRes", <<bs, v>>)
EncodeTopLevelDC_ACDP_BPTRes_body(bs, v) == EncodeDC_ACDP_BPTRes(writeTopLevel(bs, 62), v)

\* ------------------------------------------------------------- dispatcher
\* the type switch of EncodeStruct; v.type is the dynamic type of v
EncodeSwitch(bs, v) == Call("EncodeSwitch", <<bs, v>>)
EncodeSwitch_body(bs, v) ==
  CASE v.type = "SessionSetupReq" -> EncodeTopLevelSessionSetupReq(bs, v.msg)
    [] v.type = "SessionSetupRes" -> EncodeTopLevelSessionSetupRes(bs, v.msg)
    [] v.type = "SessionStopReq" -> EncodeTopLevelSessionStopReq(bs, v.msg)
    [] v.type = "SessionStopRes" -> EncodeTopLevelSessionStopRes(bs, v.msg)
    [] v.type = "ServiceDiscoveryReq" -> EncodeTopLevelServiceDiscoveryReq(bs, v.msg)
    [] v.type = "ServiceDiscoveryRes" -> EncodeTopLevelServiceDiscoveryRes(bs, v.msg)
    [] v.type = "ServiceDetailReq" -> EncodeTopLevelServiceDetailReq(bs, v.msg)
    [] v.type = "ServiceDetailRes" -> EncodeTopLevelServiceDetailRes(bs, v.msg)
    [] v.type = "ServiceSelectionReq" -> EncodeTopLevelServiceSelectionReq(bs, v.msg)
    [] v.type = "ServiceSelectionRes" -> EncodeTopLevelServiceSelectionRes(bs, v.msg)
    [] v.type = "AuthorizationReq" -> EncodeTopLevelAuthorizationReq(bs, v.msg)
    [] v.type = "AuthorizationRes" -> EncodeTopLevelAuthorizationRes(bs, v.msg)
    [] v.type = "AuthorizationSetupReq" -> EncodeTopLevelAuthorizationSetupReq(bs, v.msg)
    [] v.type = "AuthorizationSetupRes" -> EncodeTopLevelAuthorizationSetupRes(bs, v.msg)
    [] v.type = "PowerDeliveryReq" -> EncodeTopLevelPowerDeliveryReq(bs, v.msg)
    [] v.type = "PowerDeliveryRes" -> EncodeTopLevelPowerDeliveryRes(bs, v.msg)
    [] v.type = "ScheduleExchangeReq" -> EncodeTopLevelScheduleExchangeReq(bs, v.msg)
    [] v.type = "ScheduleExchangeRes" -> EncodeTopLevelScheduleExchangeRes(bs, v.msg)
    [] v.type = "MeteringConfirmationReq" -> EncodeTopLevelMeteringConfirmationReq(bs, v.msg)
    [] v.type = "MeteringConfirmationRes" -> EncodeTopLevelMeteringConfirmationRes(bs, v.msg)
    [] v.type = "CertificateInstallationReq" -> EncodeTopLevelCertificateInstallationReq(bs, v.msg)
    [] v.type = "CertificateInstallationRes" -> EncodeTopLevelCertificateInstallationRes(bs, v.msg)
    [] v.type = "VehicleCheckInReq" -> EncodeTopLevelVehicleCheckInReq(bs, v.msg)
    [] v.type = "VehicleCheckInRes" -> EncodeTopLevelVehicleCheckInRes(bs, v.msg)
    [] v.type = "VehicleCheckOutReq" -> EncodeTopLevelVehicleCheckOutReq(bs, v.msg)
    [] v.type = "VehicleCheckOutRes" -> EncodeTopLevelVehicleCheckOutRes(bs, v.msg)
    [] v.type = "CLReqControlMode" -> EncodeTopLevelCLReqControlMode(bs, v.msg)
    [] v.type = "CLResControlMode" -> EncodeTopLevelCLResControlMode(bs, v.msg)
    [] v.type = "CertificateUpdateReq" -> EncodeCertificateUpdateReq(bs, v.msg)
    [] v.type = "CertificateUpdateRes" -> EncodeCertificateUpdateRes(bs, v.msg)
    [] v.type = "WPT_AlignmentCheckReq" -> EncodeTopLevelWPT_AlignmentCheckReq(bs, v.msg)
    [] v.type = "WPT_AlignmentCheckRes" -> EncodeTopLevelWPT_AlignmentCheckRes(bs, v.msg)
    [] v.type = "WPT_FinePositioningReq" -> EncodeTopLevelWPT_FinePositioningReq(bs, v.msg)
    [] v.type = "WPT_FinePositioningRes" -> EncodeTopLevelWPT_FinePositioningRes(bs, v.msg)
    [] v.type = "WPT_ChargeLoopReq" -> EncodeTopLevelWPT_ChargeLoopReq(bs, v.msg)
    [] v.type = "WPT_ChargeLoopRes" -> EncodeTopLevelWPT_ChargeLoopRes(bs, v.msg)
    [] v.type = "DC_ACDPReq" -> EncodeTopLevelDC_ACDPReq(bs, v.msg)
    [] v.type = "DC_ACDPRes" -> EncodeTopLevelDC_ACDPRes(bs, v.msg)
    [] v.type = "DC_ACDP_BPTReq" -> EncodeTopLevelDC_ACDP_BPTReq(bs, v.msg)
    [] v.type = "DC_ACDP_BPTRes" -> EncodeTopLevelDC_ACDP_BPTRes(bs, v.msg)
    [] OTHER -> [bs EXCEPT !.err = "UnsupportedMessage"]

\* a switch with a case for every event code
DecoderOfEveryCode(eventCode) == "DecodeSessionStopReq"

\* the switch of DecodeStruct on the event code: the decoder it returns
DecoderOf(eventCode) == Call("DecoderOf", <<eventCode>>)
DecoderOf_body(eventCode) ==
  CASE eventCode = 0 -> "DecodeAuthorizationReq"
    [] eventCode = 1 -> "DecodeAuthorizationRes"
    [] eventCode = 2 -> "DecodeAuthorizationSetupReq"
    [] eventCode = 3 -> "DecodeAuthorizationSetupRes"
    [] eventCode = 4 -> "DecodeCLReqControlMode"
    [] eventCode = 5 -> "DecodeCLResControlMode"
    [] eventCode = 7 -> "DecodeCertificateInstallationReq"
    [] eventCode = 8 -> "DecodeCertificateInstallationRes"
    [] eventCode = 16 -> "DecodeMeteringConfirmationReq"
    [] eventCode = 17 -> "DecodeMeteringConfirmationRes"
    [] eventCode = 21 -> "DecodePowerDeliveryReq"
    [] eventCode = 22 -> "DecodePowerDeliveryRes"
    [] eventCode = 27 -> "DecodeScheduleExchangeReq"
    [] eventCode = 28 -> "DecodeScheduleExchangeRes"
    [] eventCode = 29 -> "DecodeServiceDetailReq"
    [] eventCode = 30 -> "DecodeServiceDetailRes"
    [] eventCode = 31 -> "DecodeServiceDiscoveryReq"
    [] eventCode = 32 -> "DecodeServiceDiscoveryRes"
    [] eventCode = 33 -> "DecodeServiceSelectionReq"
    [] eventCode = 34 -> "DecodeServiceSelectionRes"
    [] eventCode = 35 -> "DecodeSessionSetupReq"
    [] eventCode = 36 -> "DecodeSessionSetupRes"
    [] eventCode = 37 -> "DecodeSessionStopReq"
    [] eventCode = 38 -> "DecodeSessionStopRes"
    [] eventCode = 50 -> "DecodeVehicleCheckInRes"
    [] eventCode = 45 -> "DecodeVehicleCheckOutRes"
    [] eventCode = 49 -> "DecodeVehicleCheckInReq"
    [] eventCode = 51 -> "DecodeVehicleCheckOutReq"
    [] eventCode = 52 -> "DecodeVehicleCheckOutRes"
    [] eventCode = 53 -> "DecodeWPT_AlignmentCheckReq"
    [] eventCode = 54 -> "DecodeWPT_AlignmentCheckRes"
    [] eventCode = 55 -> "DecodeWPT_FinePositioningReq"
    [] eventCode = 56 -> "DecodeWPT_FinePositioningRes"
    [] eventCode = 57 -> "DecodeWPT_ChargeLoopReq"
    [] eventCode = 58 -> "DecodeWPT_ChargeLoopRes"
    [] eventCode = 59 -> "DecodeDC_ACDPReq"
    [] eventCode = 60 -> "DecodeDC_ACDPRes"
    [] eventCode = 61 -> "DecodeDC_ACDP_BPTReq"
    [] eventCode = 62 -> "DecodeDC_ACDP_BPTRes"
    [] OTHER -> "none"

\* the call of the decoder of that name
RunDecoder(name, bs) == Call("RunDecoder", <<name, bs>>)
RunDecoder_body(name, bs) ==
  CASE name = "DecodeAuthorizationReq" -> DecodeAuthorizationReq(bs)
    [] name = "DecodeAuthorizationRes" -> DecodeAuthorizationRes(bs)
    [] name = "DecodeAuthorizationSetupReq" -> DecodeAuthorizationSetupReq(bs)
    [] name = "DecodeAuthorizationSetupRes" -> DecodeAuthorizationSetupRes(bs)
    [] name = "DecodeCLReqControlMode" -> DecodeCLReqControlMode(bs)
    [] name = "DecodeCLResControlMode" -> DecodeCLResControlMode(bs)
    [] name = "DecodeCertificateInstallationReq" -> DecodeCertificateInstallationReq(bs)
    [] name = "DecodeCertificateInstallationRes" -> DecodeCertificateInstallationRes(bs)
    [] name = "DecodeCertificateUpdateReq" -> DecodeCertificateUpdateReq(bs)
    [] name = "DecodeCertificateUpdateRes" -> DecodeCertificateUpdateRes(bs)
    [] name = "DecodeDC_ACDPReq" -> DecodeDC_ACDPReq(bs)
    [] name = "DecodeDC_ACDPRes" -> DecodeDC_ACDPRes(bs)
    [] name = "DecodeDC_ACDP_BPTReq" -> DecodeDC_ACDP_BPTReq(bs)
    [] name = "DecodeDC_ACDP_BPTRes" -> DecodeDC_ACDP_BPTRes(bs)
    [] name = "DecodeMeteringConfirmationReq" -> DecodeMeteringConfirmationReq(bs)
    [] name = "DecodeMeteringConfirmationRes" -> DecodeMeteringConfirmationRes(bs)
    [] name = "DecodePowerDeliveryReq" -> DecodePowerDeliveryReq(bs)
    [] name = "DecodePowerDeliveryRes" -> DecodePowerDeliveryRes(bs)
    [] name = "DecodeScheduleExchangeReq" -> DecodeScheduleExchangeReq(bs)
    [] name = "DecodeScheduleExchangeRes" -> DecodeScheduleExchangeRes(bs)
    [] name = "DecodeServiceDetailReq" -> DecodeServiceDetailReq(bs)
    [] name = "DecodeServiceDetailRes" -> DecodeServiceDetailRes(bs)
    [] name = "DecodeServiceDiscoveryReq" -> DecodeServiceDiscoveryReq(bs)
    [] name = "DecodeServiceDiscoveryRes" -> DecodeServiceDiscoveryRes(bs)
    [] name = "DecodeServiceSelectionReq" -> DecodeServiceSelectionReq(bs)
    [] name = "DecodeServiceSelectionRes" -> DecodeServiceSelectionRes(bs)
    [] name = "DecodeSessionSetupReq" -> DecodeSessionSetupReq(bs)
    [] name = "DecodeSessionSetupRes" -> DecodeSessionSetupRes(bs)
    [] name = "DecodeSessionStopReq" -> DecodeSessionStopReq(bs)
    [] name = "DecodeSessionStopRes" -> DecodeSessionStopRes(bs)
    [] name = "DecodeVehicleCheckInReq" -> DecodeVehicleCheckInReq(bs)
    [] name = "DecodeVehicleCheckInRes" -> DecodeVehicleCheckInRes(bs)
    [] name = "DecodeVehicleCheckOutReq" -> DecodeVehicleCheckOutReq(bs)
    [] name = "DecodeVehicleCheckOutRes" -> DecodeVehicleCheckOutRes(bs)
    [] name = "DecodeWPT_AlignmentCheckReq" -> DecodeWPT_AlignmentCheckReq(bs)
    [] name = "DecodeWPT_AlignmentCheckRes" -> DecodeWPT_AlignmentCheckRes(bs)
    [] name = "DecodeWPT_ChargeLoopReq" -> DecodeWPT_ChargeLoopReq(bs)
    [] name = "DecodeWPT_ChargeLoopRes" -> DecodeWPT_ChargeLoopRes(bs)
    [] name = "DecodeWPT_FinePositioningReq" -> DecodeWPT_FinePositioningReq(bs)
    [] name = "DecodeWPT_FinePositioningRes" -> DecodeWPT_FinePositioningRes(bs)
    [] OTHER -> [bs EXCEPT !.err = "UnsupportedMessage"]

\* `buf := make([]byte, defaultEncodeBufferSize)`
ZeroBuffer == [i \in 1..defaultEncodeBufferSize |-> 0]

\* EncodeStruct(v): the stream after the type switch
EncodeStream(v) == Call("EncodeStream", <<v>>)
EncodeStream_body(v) == EncodeSwitch(BitStreamInit(NewStream, ZeroBuffer, FALSE, 0), v)

\* EncodeStruct that returns the bytes written whatever the encoder reported
EncodeStructIgnoringError(v) ==
  LET bs     == EncodeStream(v)
      outLen == IF Length(bs) > Len(bs.data) THEN Len(bs.data) ELSE Length(bs)
  IN [err |-> "ok", out |-> SubSeq(bs.data, 1, outLen),
      trace |-> bs.trace, bytePos |-> bs.bytePos, bitCount |-> bs.bitCount]

\* EncodeStruct(v): the error, the bytes returned when there is none, and
\* what the encoder wrote and where its BitStream stood at the end
EncodeStruct(v) == Call("EncodeStruct", <<v>>)
EncodeStruct_body(v) ==
  LET bs     == EncodeStream(v)
      outLen == IF Length(bs) > Len(bs.data) THEN Len(bs.data) ELSE Length(bs)
  IN [err |-> bs.err, out |-> IF bs.err = "ok" THEN SubSeq(bs.data, 1, outLen) ELSE <<>>,
      trace |-> bs.trace, bytePos |-> bs.bytePos, bitCount |-> bs.bitCount]

\* DecodeStruct without the comparison of the first octet with 0x80
DecodeStructAnyHeader(data, isNil) ==
  LET bs0 == BitStreamInit(NewStream, data, isNil, 0)
      h   == ReadBits(bs0, 8)
      c   == ReadBits(h, 6)
      d   == DecoderOf(c.val)
  IN IF h.err # "ok" THEN h
     ELSE IF c.err # "ok" THEN c
     ELSE IF d = "none" THEN [c EXCEPT !.err = "UnsupportedMessage"]
     ELSE RunDecoder(d, [c EXCEPT !.invoked = d])

\* DecodeStruct(data, prototypeMsg): the prototype is not looked at
DecodeStruct(data, isNil) == Call("DecodeStruct", <<data, isNil>>)
DecodeStruct_body(data, isNil) ==
  LET bs0 == BitStreamInit(NewStream, data, isNil, 0)
      h   == ReadBits(bs0, 8)
      c   == ReadBits(h, 6)
      d   == DecoderOf(c.val)
  IN IF h.err # "ok" THEN h
     ELSE IF h.val # 128 THEN [h EXCEPT !.err = "InvalidInput"]
     ELSE IF c.err # "ok" THEN c
     ELSE IF d = "none" THEN [c EXCEPT !.err = "UnsupportedMessage"]
     ELSE RunDecoder(d, [c EXCEPT !.invoked = d])

\* the type names (c *Codec) DecodeStruct knows
CodecTypeNames ==
  {"SessionSetupReq", "ServiceDiscoveryReq", "CertificateUpdateReq", "SessionSetupRes",
   "ServiceDetailReq", "SessionStopReq", "SessionStopRes", "AuthorizationSetupReq",
   "ServiceSelectionRes", "MeteringConfirmationRes", "AuthorizationRes",
   "ServiceDiscoveryRes", "CertificateUpdateRes"}

\* the decoder named after the type: Decode<typeName>
DecoderNamed(typeName) == Call("DecoderNamed", <<typeName>>)
DecoderNamed_body(typeName) ==
  CASE typeName = "SessionSetupReq" -> "DecodeSessionSetupReq"
    [] typeName = "ServiceDiscoveryReq" -> "DecodeServiceDiscoveryReq"
    [] typeName = "CertificateUpdateReq" -> "DecodeCertificateUpdateReq"
    [] typeName = "SessionSetupRes" -> "DecodeSessionSetupRes"
    [] typeName = "ServiceDetailReq" -> "DecodeServiceDetailReq"
    [] typeName = "SessionStopReq" -> "DecodeSessionStopReq"
    [] typeName = "SessionStopRes" -> "DecodeSessionStopRes"
    [] typeName = "AuthorizationSetupReq" -> "DecodeAuthorizationSetupReq"
    [] typeName = "ServiceSelectionRes" -> "DecodeServiceSelectionRes"
    [] typeName = "MeteringConfirmationRes" -> "DecodeMeteringConfirmationRes"
    [] typeName = "AuthorizationRes" -> "DecodeAuthorizationRes"
    [] typeName = "ServiceDiscoveryRes" -> "DecodeServiceDiscoveryRes"
    [] typeName = "CertificateUpdateRes" -> "DecodeCertificateUpdateRes"
    [] OTHER -> "none"

\* (c *Codec) DecodeStruct(data, typeName): no header, no event code
CodecDecodeStruct(data, isNil, typeName) == Call("CodecDecodeStruct", <<data, isNil, typeName>>)
CodecDecodeStruct_body(data, isNil, typeName) ==
  LET bs0 == BitStreamInit(NewStream, data, isNil, 0)
      d   == DecoderNamed(typeName)
  IN IF d = "none" THEN [bs0 EXCEPT !.err = "UnsupportedMessage"]
     ELSE RunDecoder(d, [bs0 EXCEPT !.invoked = d])

\* ------------------------------------------------------- message values
\* the values handed to EncodeStruct: for every type the dispatcher accepts,
\* values whose enum strings come from the enum tables, with each optional
\* field absent and present
H0 == ZeroHeader
H1 == [SessionID |-> <<1, 2>>, TimeStamp |-> U64(300)]

R1 == [Exponent |-> -3, Value |-> 250]
R2 == [Exponent |-> 0, Value |-> -1]

Chain0 == [Certificates |-> <<>>]
Chain2 == [Certificates |-> <<<<1, 2>>, <<3>>>>]

Profile1 == [TimeAnchor |-> U64(9), Entries |-> <<[Duration |-> U64(60), Power |-> R1]>>]

ParamSet1 ==
  [ParameterSetID |-> 1,
   Parameters |-> <<[Name |-> <<97>>, IntValue |-> <<-2>>, StrValue |-> <<>>, BoolValue |-> <<>>],
                    [Name |-> <<98>>, IntValue |-> <<>>, StrValue |-> <<<<115>>>>, BoolValue |-> <<>>],
                    [Name |-> <<99>>, IntValue |-> <<>>, StrValue |-> <<>>, BoolValue |-> <<TRUE>>],
                    [Name |-> <<100>>, IntValue |-> <<>>, StrValue |-> <<>>, BoolValue |-> <<>>]>>]

Service1 == [ServiceID |-> 5, FreeService |-> TRUE]
Service2 == [ServiceID |-> 600, FreeService |-> FALSE]

Selected1 == [ServiceID |-> 1, ParameterSetID |-> <<>>]
Selected2 == [ServiceID |-> 300, ParameterSetID |-> <<2>>]

PnCReq1 == [GenChallenge |-> <<9>>, ContractCertificateChain |-> <<>>]
PnCReq2 == [GenChallenge |-> <<>>, ContractCertificateChain |-> <<Chain2>>]
PnCRes1 == [GenChallenge |-> <<9, 8>>, SupportedProviders |-> <<<<80>>>>]

Msg(t, m) == [type |-> t, msg |-> m]

SessionMessages ==
  << Msg("SessionSetupReq", [Header |-> H0, EVCCID |-> <<>>]),
     Msg("SessionSetupReq", [Header |-> H1, EVCCID |-> <<65, 66>>]),
     Msg("SessionSetupRes", [Header |-> H1, ResponseCode |-> "OK", EVSEID |-> <<90>>,
                             DateTimeNow |-> <<>>]),
     Msg("SessionSetupRes", [Header |-> H1, ResponseCode |-> "FAILED", EVSEID |-> <<90>>,
                             DateTimeNow |-> <<U64(7)>>]),
     Msg("SessionStopReq", [Header |-> H1, ChargingSession |-> "Pause",
                            EVTerminationCode |-> <<>>, EVTerminationExplanation |-> <<>>]),
     Msg("SessionStopReq", [Header |-> H1, ChargingSession |-> "Terminate",
                            EVTerminationCode |-> <<<<67>>>>,
                            EVTerminationExplanation |-> <<>>]),
     Msg("SessionStopReq", [Header |-> H1, ChargingSession |-> "ServiceRenegotiation",
                            EVTerminationCode |-> <<>>,
                            EVTerminationExplanation |-> <<<<68, 69>>>>]),
     Msg("SessionStopReq", [Header |-> H1, ChargingSession |-> "Pause",
                            EVTerminationCode |-> <<<<67>>>>,
                            EVTerminationExplanation |-> <<<<68, 69>>>>]),
     Msg("SessionStopRes", [Header |-> H1, ResponseCode |-> "OK"]),
     Msg("SessionStopRes", [Header |-> H0, ResponseCode |-> "FAILED"]),
     Msg("CLReqControlMode", [Header |-> H1]),
     Msg("CLResControlMode", [Header |-> H1]),
     Msg("MeteringConfirmationReq", [Header |-> H1]),
     Msg("MeteringConfirmationRes", [Header |-> H1, ResponseCode |-> "OK_OldSessionJoined"]),
     Msg("ScheduleExchangeReq", [Header |-> H1, MaximumSupportingPoints |-> 1024]),
     Msg("ScheduleExchangeRes", [Header |-> H1, ResponseCode |-> "OK",
                                 EVSEProcessing |-> "Ongoing"]) >>

ServiceMessages ==
  << Msg("ServiceDiscoveryReq", [Header |-> H1, ServiceScope |-> <<>>,
                                 ServiceCategory |-> <<>>]),
     Msg("ServiceDiscoveryReq", [Header |-> H1, ServiceScope |-> <<<<83>>>>,
                                 ServiceCategory |-> <<>>]),
     Msg("ServiceDiscoveryRes", [Header |-> H1, ResponseCode |-> "OK",
                                 ServiceRenegotiationSupported |-> TRUE,
                                 EnergyTransferServiceList |-> [Services |-> <<Service1>>],
                                 VASList |-> <<>>]),
     Msg("ServiceDiscoveryRes", [Header |-> H1, ResponseCode |-> "OK",
                                 ServiceRenegotiationSupported |-> FALSE,
                                 EnergyTransferServiceList |-> [Services |-> <<Service1, Service2>>],
                                 VASList |-> <<[Services |-> <<Service2>>]>>]),
     Msg("ServiceDetailReq", [Header |-> H1, ServiceID |-> 300]),
     Msg("ServiceDetailRes", [Header |-> H1, ResponseCode |-> "OK", ServiceID |-> 2,
                              ServiceParameterList |-> [ParameterSets |-> <<>>]]),
     Msg("ServiceDetailRes", [Header |-> H1, ResponseCode |-> "OK", ServiceID |-> 2,
                              ServiceParameterList |-> [ParameterSets |-> <<ParamSet1>>]]),
     Msg("ServiceSelectionReq", [Header |-> H1, SelectedEnergyTransferService |-> Selected1,
                                 SelectedVASList |-> <<>>]),
     Msg("ServiceSelectionReq", [Header |-> H1, SelectedEnergyTransferService |-> Selected2,
                                 SelectedVASList |->
                                   <<[SelectedServices |-> <<Selected1, Selected2>>]>>]),
     Msg("ServiceSelectionRes", [Header |-> H1, ResponseCode |-> "OK"]) >>

AuthorizationMessages ==
  << Msg("AuthorizationReq", [Header |-> H1, SelectedAuthorizationService |-> <<69>>,
                              EIM_AReqAuthorizationMode |-> <<>>,
                              PnC_AReqAuthorizationMode |-> <<>>]),
     Msg("AuthorizationReq", [Header |-> H1, SelectedAuthorizationService |-> <<69>>,
                              EIM_AReqAuthorizationMode |-> <<"EIM">>,
                              PnC_AReqAuthorizationMode |-> <<>>]),
     Msg("AuthorizationReq", [Header |-> H1, SelectedAuthorizationService |-> <<80>>,
                              EIM_AReqAuthorizationMode |-> <<>>,
                              PnC_AReqAuthorizationMode |-> <<PnCReq1>>]),
     Msg("AuthorizationReq", [Header |-> H1, SelectedAuthorizationService |-> <<80>>,
                              EIM_AReqAuthorizationMode |-> <<>>,
                              PnC_AReqAuthorizationMode |-> <<PnCReq2>>]),
     Msg("AuthorizationRes", [Header |-> H1, ResponseCode |-> "OK",
                              EVSEProcessing |-> "Finished"]),
     Msg("AuthorizationRes", [Header |-> H1, ResponseCode |-> "OK_CertificateExpiresSoon",
                              EVSEProcessing |-> "Ongoing_WaitingForCustomerInteraction"]),
     Msg("AuthorizationSetupReq", [Header |-> H1]),
     Msg("AuthorizationSetupRes", [Header |-> H1, ResponseCode |-> "OK",
                                   AuthorizationServices |-> <<>>,
                                   CertificateInstallationService |-> FALSE,
                                   EIM_ASResAuthorizationMode |-> <<>>,
                                   PnC_ASResAuthorizationMode |-> <<>>]),
     Msg("AuthorizationSetupRes", [Header |-> H1, ResponseCode |-> "OK",
                                   AuthorizationServices |-> <<<<69>>>>,
                                   CertificateInstallationService |-> TRUE,
                                   EIM_ASResAuthorizationMode |-> <<"EIM">>,
                                   PnC_ASResAuthorizationMode |-> <<>>]),
     Msg("AuthorizationSetupRes", [Header |-> H1, ResponseCode |-> "OK",
                                   AuthorizationServices |-> <<<<69>>, <<80>>>>,
                                   CertificateInstallationService |-> TRUE,
                                   EIM_ASResAuthorizationMode |-> <<>>,
                                   PnC_ASResAuthorizationMode |-> <<PnCRes1>>]) >>

CertificateMessages ==
  << Msg("CertificateInstallationReq", [Header |-> H1, OEMProvisioningCertChain |-> Chain2,
                                        ListOfRootCertificateIDs |-> <<<<82>>>>]),
     Msg("CertificateInstallationRes", [Header |-> H1, ResponseCode |-> "OK",
                                        EVSEProcessing |-> "Finished",
                                        CPSCertificateChain |-> Chain2,
                                        ContractSignatureEncryptedPrivateKey |-> <<75>>,
                                        DHPublicKey |-> <<4, 5>>,
                                        ContractCertificateChain |-> Chain0]),
     Msg("CertificateUpdateReq", [Header |-> H0, Id |-> <<>>,
                                  ContractSignatureCertChain |-> Chain0,
                                  ContractID |-> <<>>, ListOfRootCertificateIDs |-> <<>>,
                                  DHParams |-> <<>>]),
     Msg("CertificateUpdateReq", [Header |-> H1, Id |-> <<73>>,
                                  ContractSignatureCertChain |-> Chain2,
                                  ContractID |-> <<67>>,
                                  ListOfRootCertificateIDs |-> <<<<82>>>>,
                                  DHParams |-> <<4>>]),
     Msg("CertificateUpdateRes", [Header |-> H0, Id |-> <<>>, ResponseCode |-> <<79, 75>>,
                                  ContractSignatureCertChain |-> Chain0,
                                  ContractSignatureEncryptedPrivateKey |-> <<>>,
                                  DHParams |-> <<>>, ContractID |-> <<>>,
                                  RetryCounter |-> <<>>]),
     Msg("CertificateUpdateRes", [Header |-> H1, Id |-> <<73>>, ResponseCode |-> <<79, 75>>,
                                  ContractSignatureCertChain |-> Chain2,
                                  ContractSignatureEncryptedPrivateKey |-> <<75>>,
                                  DHParams |-> <<4>>, ContractID |-> <<67>>,
                                  RetryCounter |-> <<U64(3)>>]) >>

PowerMessages ==
  << Msg("PowerDeliveryReq", [Header |-> H1, EVProcessing |-> "Finished",
                              ChargeProgress |-> <<83>>, EVPowerProfile |-> <<>>,
                              BPT_ChannelSelection |-> <<>>]),
     Msg("PowerDeliveryReq", [Header |-> H1, EVProcessing |-> "Ongoing",
                              ChargeProgress |-> <<83>>, EVPowerProfile |-> <<Profile1>>,
                              BPT_ChannelSelection |-> <<>>]),
     Msg("PowerDeliveryReq", [Header |-> H1, EVProcessing |-> "Ongoing",
                              ChargeProgress |-> <<83>>, EVPowerProfile |-> <<>>,
                              BPT_ChannelSelection |-> <<<<67>>>>]),
     Msg("PowerDeliveryReq", [Header |-> H1, EVProcessing |-> "Finished",
                              ChargeProgress |-> <<83>>, EVPowerProfile |-> <<Profile1>>,
                              BPT_ChannelSelection |-> <<<<67>>>>]),
     Msg("PowerDeliveryRes", [Header |-> H1, ResponseCode |-> "OK", EVSEStatus |-> <<>>]),
     Msg("PowerDeliveryRes", [Header |-> H1, ResponseCode |-> "FAILED",
                              EVSEStatus |-> <<[NotificationMaxDelay |-> 10,
                                                EVSENotification |-> <<78>>]>>]),
     Msg("VehicleCheckInReq", [Header |-> H1, EVCheckInStatus |-> <<67>>,
                               ParkingMethod |-> <<>>]),
     Msg("VehicleCheckInReq", [Header |-> H1, EVCheckInStatus |-> <<67>>,
                               ParkingMethod |-> <<<<80>>>>]),
     Msg("VehicleCheckInRes", [Header |-> H1, ResponseCode |-> "OK",
                               VehicleCheckInResult |-> <<>>]),
     Msg("VehicleCheckInRes", [Header |-> H1, ResponseCode |-> "OK",
                               VehicleCheckInResult |-> <<<<82>>>>]),
     Msg("VehicleCheckOutReq", [Header |-> H1, EVCheckOutStatus |-> <<67>>,
                                CheckOutTime |-> U64(500)]),
     Msg("VehicleCheckOutRes", [Header |-> H1, ResponseCode |-> "OK",
                                EVSECheckOutStatus |-> <<83>>]) >>

WPTMessages ==
  << Msg("WPT_AlignmentCheckReq", [Header |-> H1]),
     Msg("WPT_AlignmentCheckRes", [Header |-> H1, ResponseCode |-> "OK",
                                   AlignmentStatus |-> "Aligned",
                                   AlignmentOffset_X |-> <<R1>>, AlignmentOffset_Y |-> <<R2>>,
                                   AlignmentOffset_Z |-> <<R1>>]),
     Msg("WPT_AlignmentCheckRes", [Header |-> H1, ResponseCode |-> "OK",
                                   AlignmentStatus |-> "InProgress",
                                   AlignmentOffset_X |-> <<>>, AlignmentOffset_Y |-> <<>>,
                                   AlignmentOffset_Z |-> <<>>]),
     Msg("WPT_AlignmentCheckRes", [Header |-> H1, ResponseCode |-> "OK",
                                   AlignmentStatus |-> "NotAligned",
                                   AlignmentOffset_X |-> <<R1>>, AlignmentOffset_Y |-> <<>>,
                                   AlignmentOffset_Z |-> <<>>]),
     Msg("WPT_AlignmentCheckRes", [Header |-> H1, ResponseCode |-> "OK",
                                   AlignmentStatus |-> "Aligned",
                                   AlignmentOffset_X |-> <<>>, AlignmentOffset_Y |-> <<R2>>,
                                   AlignmentOffset_Z |-> <<R1>>]),
     Msg("WPT_FinePositioningReq", [Header |-> H1]),
     Msg("WPT_FinePositioningRes", [Header |-> H1, ResponseCode |-> "OK",
                                    PositioningStatus |-> "Complete"]),
     Msg("WPT_FinePositioningRes", [Header |-> H1, ResponseCode |-> "OK",
                                    PositioningStatus |-> "Failed"]),
     Msg("WPT_ChargeLoopReq", [Header |-> H1, EVProcessing |-> "Finished"]),
     Msg("WPT_ChargeLoopRes", [Header |-> H1, ResponseCode |-> "OK",
                               EVSEProcessing |-> "Ongoing"]),
     Msg("DC_ACDPReq", [Header |-> H1, EVProcessing |-> "Ongoing",
                        EVTargetEnergyRequest |-> R1]),
     Msg("DC_ACDPRes", [Header |-> H1, ResponseCode |-> "OK", EVSEProcessing |-> "Finished"]),
     Msg("DC_ACDP_BPTReq", [Header |-> H1, EVProcessing |-> "Finished",
                            EVTargetEnergyRequest |-> R2]),
     Msg("DC_ACDP_BPTRes", [Header |-> H1, ResponseCode |-> "FAILED",
                            EVSEProcessing |-> "Ongoing"]) >>

Messages == SessionMessages \o ServiceMessages \o AuthorizationMessages
            \o CertificateMessages \o PowerMessages \o WPTMessages

\* a SessionSetupReq takes 8 bytes more than its EVCCID: one whose encoding
\* needs one byte more than the encoder's buffer holds
LongEVCCID(n) == [i \in 1..n |-> 65]

LongMessages ==
  << Msg("SessionSetupReq", [Header |-> H0,
                             EVCCID |-> LongEVCCID(defaultEncodeBufferSize - 7)]) >>

\* ------------------------------------------------------ crafted inputs
\* byte sequences no encoder of this package produces, written with the
\* BitStream primitives on a scratch buffer
CraftBufferSize == 48

CraftStream == BitStreamInit(NewStream, [i \in 1..CraftBufferSize |-> 0], FALSE, 0)

\* the bytes written so far (the copy EncodeStruct returns)
Bytes(bs) == SubSeq(bs.data, 1, Length(bs))

\* an AuthorizationReq up to the count of its ContractCertificateChain
ChainCountInput(count) == Call("ChainCountInput", <<count>>)
ChainCountInput_body(count) ==
  LET s1 == writeStringField(writeHeader(writeTopLevel(CraftStream, 0), [Header |-> H1]), <<80>>)
      s2 == WriteBits(WriteBits(s1, 2, 1), 1, 0)
      s3 == WriteBits(WriteBits(WriteBits(s2, 1, 0), 1, 1), 1, 0)
  IN Bytes(WriteUnsignedVar(WriteBits(s3, 1, 0), count))

\* a SessionSetupReq whose header announces a SessionID of n bytes and ends
SessionIDLengthInput(n) == Call("SessionIDLengthInput", <<n>>)
SessionIDLengthInput_body(n) ==
  LET s1 == WriteBits(WriteBits(WriteBits(writeTopLevel(CraftStream, 35), 1, 0), 1, 0), 1, 0)
  IN Bytes(writeUint16(s1, n))

\* a SessionSetupReq whose EVCCID length is written as the varint n and
\* followed by the bytes of data
EVCCIDLengthInput(n, data) == Call("EVCCIDLengthInput", <<n, data>>)
EVCCIDLengthInput_body(n, data) ==
  LET s1 == encodeMessageHeaderType(WriteBits(writeTopLevel(CraftStream, 35), 1, 0), H1)
      s2 == writeRawBytes(WriteUnsignedVar(WriteBits(WriteBits(s1, 1, 0), 1, 0), U64(n)), data)
  IN Bytes(WriteBits(WriteBits(s2, 1, 0), 1, 0))

\* a PowerDeliveryReq whose EVProcessing field carries the 2-bit value e
EVProcessingInput(e) == Call("EVProcessingInput", <<e>>)
EVProcessingInput_body(e) ==
  LET s1 == writeEnumField(writeHeader(writeTopLevel(CraftStream, 21), [Header |-> H1]), 2, e)
  IN Bytes(WriteBits(WriteBits(writeStringField(s1, <<83>>), 3, 3), 1, 0))

\* a SessionStopRes whose ResponseCode field carries the 6-bit value rc
ResponseCodeInput(rc) == Call("ResponseCodeInput", <<rc>>)
ResponseCodeInput_body(rc) ==
  LET s1 == writeEnumField(writeHeader(writeTopLevel(CraftStream, 38), [Header |-> H1]), 6, rc)
  IN Bytes(WriteBits(s1, 1, 0))

\* a DC_ACDPRes whose EVSEProcessing field carries the 2-bit value e
EVSEProcessingInput(e) == Call("EVSEProcessingInput", <<e>>)
EVSEProcessingInput_body(e) ==
  LET s1 == writeEnumField(writeHeader(writeTopLevel(CraftStream, 60), [Header |-> H1]), 6, 0)
  IN Bytes(WriteBits(writeEnumField(s1, 2, e), 1, 0))

\* the i-th crafted input
CraftedInput(i) == Call("CraftedInput", <<i>>)
CraftedInput_body(i) ==
  CASE i = 1  -> <<>>
    [] i = 2  -> <<128>>
    [] i = 3  -> ChainCountInput(U64Top)
    [] i = 4  -> ChainCountInput(U64Max)
    [] i = 5  -> ChainCountInput(U64(1000000))
    [] i = 6  -> ChainCountInput(U64(0))
    [] i = 7  -> SessionIDLengthInput(1000)
    [] i = 8  -> SessionIDLengthInput(3)
    [] i = 9  -> EVCCIDLengthInput(65541, <<7, 8, 9>>)
    [] i = 10 -> EVCCIDLengthInput(5, <<7, 8, 9>>)
    [] i = 11 -> EVCCIDLengthInput(1, <<>>)
    [] i = 12 -> EVCCIDLengthInput(9, <<7, 8, 9>>)
    [] i = 13 -> EVProcessingInput(2)
    [] i = 14 -> EVProcessingInput(3)
    [] i = 15 -> ResponseCodeInput(63)
    [] i = 16 -> ResponseCodeInput(4)
    [] i = 17 -> EVSEProcessingInput(3)
    [] i = 18 -> EVSEProcessingInput(2)

CraftedIndices == 1..18

\* ---------------------------------------------------------- call table
\* Go evaluates the arguments of a call before the function runs: Len(a)
\* evaluates the argument list a
Call(f, a) ==
  CASE Len(a) = 0 -> a
    [] f = "ReadBits" -> ReadBits_body(a[1], a[2])
    [] f = "WriteBits" -> WriteBits_body(a[1], a[2], a[3])
    [] f = "ReadUnsignedVar" -> ReadUnsignedVar_body(a[1])
    [] f = "WriteUnsignedVar" -> WriteUnsignedVar_body(a[1], a[2])
    [] f = "writeUint16" -> writeUint16_body(a[1], a[2])
    [] f = "readUint16" -> readUint16_body(a[1])
    [] f = "writeRawBytes" -> writeRawBytes_body(a[1], a[2])
    [] f = "readRawBytes" -> readRawBytes_body(a[1], a[2])
    [] f = "writeBytes" -> writeBytes_body(a[1], a[2])
    [] f = "readBytes" -> readBytes_body(a[1])
    [] f = "writeBinaryArray" -> writeBinaryArray_body(a[1], a[2])
    [] f = "readBinaryArray" -> readBinaryArray_body(a[1])
    [] f = "encodeMessageHeaderType" -> encodeMessageHeaderType_body(a[1], a[2])
    [] f = "decodeMessageHeaderType" -> decodeMessageHeaderType_body(a[1])
    [] f = "writeSchemaBytes" -> writeSchemaBytes_body(a[1], a[2])
    [] f = "readSchemaBytes" -> readSchemaBytes_body(a[1])
    [] f = "EncodeSessionSetupReq" -> EncodeSessionSetupReq_body(a[1], a[2])
    [] f = "DecodeSessionSetupReq" -> DecodeSessionSetupReq_body(a[1])
    [] f = "writeEnumField" -> writeEnumField_body(a[1], a[2], a[3])
    [] f = "readEnumField" -> readEnumField_body(a[1], a[2])
    [] f = "writeHeader" -> writeHeader_body(a[1], a[2])
    [] f = "readHeader" -> readHeader_body(a[1])
    [] f = "EncodeHeaderResponseCode" -> EncodeHeaderResponseCode_body(a[1], a[2])
    [] f = "DecodeHeaderResponseCode" -> DecodeHeaderResponseCode_body(a[1])
    [] f = "EncodeServiceDiscoveryReq" -> EncodeServiceDiscoveryReq_body(a[1], a[2])
    [] f = "DecodeServiceDiscoveryReq" -> DecodeServiceDiscoveryReq_body(a[1])
    [] f = "EncodeServiceDetailReq" -> EncodeServiceDetailReq_body(a[1], a[2])
    [] f = "DecodeServiceDetailReq" -> DecodeServiceDetailReq_body(a[1])
    [] f = "writeTermString" -> writeTermString_body(a[1], a[2])
    [] f = "readTermString" -> readTermString_body(a[1])
    [] f = "EncodeSessionStopReq" -> EncodeSessionStopReq_body(a[1], a[2])
    [] f = "DecodeSessionStopReq" -> DecodeSessionStopReq_body(a[1])
    [] f = "EncodeSessionStopRes" -> EncodeSessionStopRes_body(a[1], a[2])
    [] f = "DecodeSessionStopRes" -> DecodeSessionStopRes_body(a[1])
    [] f = "EncodeServiceSelectionRes" -> EncodeServiceSelectionRes_body(a[1], a[2])
    [] f = "DecodeServiceSelectionRes" -> DecodeServiceSelectionRes_body(a[1])
    [] f = "EncodeMeteringConfirmationRes" -> EncodeMeteringConfirmationRes_body(a[1], a[2])
    [] f = "DecodeMeteringConfirmationRes" -> DecodeMeteringConfirmationRes_body(a[1])
    [] f = "EncodeHeaderOnly" -> EncodeHeaderOnly_body(a[1], a[2])
    [] f = "DecodeHeaderOnly" -> DecodeHeaderOnly_body(a[1])
    [] f = "EncodeAuthorizationSetupReq" -> EncodeAuthorizationSetupReq_body(a[1], a[2])
    [] f = "DecodeAuthorizationSetupReq" -> DecodeAuthorizationSetupReq_body(a[1])
    [] f = "EncodeMeteringConfirmationReq" -> EncodeMeteringConfirmationReq_body(a[1], a[2])
    [] f = "DecodeMeteringConfirmationReq" -> DecodeMeteringConfirmationReq_body(a[1])
    [] f = "EncodeAuthorizationRes" -> EncodeAuthorizationRes_body(a[1], a[2])
    [] f = "DecodeAuthorizationRes" -> DecodeAuthorizationRes_body(a[1])
    [] f = "EncodeSessionSetupRes" -> EncodeSessionSetupRes_body(a[1], a[2])
    [] f = "DecodeSessionSetupRes" -> DecodeSessionSetupRes_body(a[1])
    [] f = "ToU8" -> ToU8_body(a[1])
    [] f = "ToI8" -> ToI8_body(a[1])
    [] f = "ToU16" -> ToU16_body(a[1])
    [] f = "ToI16" -> ToI16_body(a[1])
    [] f = "encodeRationalNumber" -> encodeRationalNumber_body(a[1], a[2])
    [] f = "decodeRationalNumber" -> decodeRationalNumber_body(a[1])
    [] f = "Trunc32" -> Trunc32_body(a[1])
    [] f = "encodeEVPowerProfileEntry" -> encodeEVPowerProfileEntry_body(a[1], a[2])
    [] f = "decodeEVPowerProfileEntry" -> decodeEVPowerProfileEntry_body(a[1])
    [] f = "encodeEVPowerProfile" -> encodeEVPowerProfile_body(a[1], a[2])
    [] f = "decodeEVPowerProfile" -> decodeEVPowerProfile_body(a[1])
    [] f = "writeStringField" -> writeStringField_body(a[1], a[2])
    [] f = "readStringField" -> readStringField_body(a[1])
    [] f = "writeProfileField" -> writeProfileField_body(a[1], a[2])
    [] f = "readProfileField" -> readProfileField_body(a[1])
    [] f = "EncodePowerDeliveryReq" -> EncodePowerDeliveryReq_body(a[1], a[2])
    [] f = "DecodePowerDeliveryReq" -> DecodePowerDeliveryReq_body(a[1])
    [] f = "writeHexField" -> writeHexField_body(a[1], a[2])
    [] f = "readHexField" -> readHexField_body(a[1])
    [] f = "encodeCertificateChain" -> encodeCertificateChain_body(a[1], a[2])
    [] f = "decodeCertificateChain" -> decodeCertificateChain_body(a[1])
    [] f = "encodePnC_AReqAuthorizationMode" -> encodePnC_AReqAuthorizationMode_body(a[1], a[2])
    [] f = "decodePnC_AReqAuthorizationMode" -> decodePnC_AReqAuthorizationMode_body(a[1])
    [] f = "EncodeAuthorizationReq" -> EncodeAuthorizationReq_body(a[1], a[2])
    [] f = "DecodeAuthorizationReq" -> DecodeAuthorizationReq_body(a[1])
    [] f = "writeUint16Field" -> writeUint16Field_body(a[1], a[2])
    [] f = "readUint16Field" -> readUint16Field_body(a[1])
    [] f = "encodeParameter" -> encodeParameter_body(a[1], a[2])
    [] f = "decodeParameter" -> decodeParameter_body(a[1])
    [] f = "encodeParameterSet" -> encodeParameterSet_body(a[1], a[2])
    [] f = "decodeParameterSet" -> decodeParameterSet_body(a[1])
    [] f = "encodeServiceParameterList" -> encodeServiceParameterList_body(a[1], a[2])
    [] f = "decodeServiceParameterList" -> decodeServiceParameterList_body(a[1])
    [] f = "EncodeServiceDetailRes" -> EncodeServiceDetailRes_body(a[1], a[2])
    [] f = "DecodeServiceDetailRes" -> DecodeServiceDetailRes_body(a[1])
    [] f = "writeOptString" -> writeOptString_body(a[1], a[2])
    [] f = "readOptString" -> readOptString_body(a[1])
    [] f = "writeOptBytes" -> writeOptBytes_body(a[1], a[2])
    [] f = "readOptBytes" -> readOptBytes_body(a[1])
    [] f = "EncodeCertificateUpdateReq" -> EncodeCertificateUpdateReq_body(a[1], a[2])
    [] f = "DecodeCertificateUpdateReq" -> DecodeCertificateUpdateReq_body(a[1])
    [] f = "EncodeCertificateUpdateRes" -> EncodeCertificateUpdateRes_body(a[1], a[2])
    [] f = "DecodeCertificateUpdateRes" -> DecodeCertificateUpdateRes_body(a[1])
    [] f = "BoolBit" -> BoolBit_body(a[1])
    [] f = "writeBoolField" -> writeBoolField_body(a[1], a[2])
    [] f = "readBoolField" -> readBoolField_body(a[1])
    [] f = "encodeServiceType" -> encodeServiceType_body(a[1], a[2])
    [] f = "decodeServiceType" -> decodeServiceType_body(a[1])
    [] f = "encodeServiceList" -> encodeServiceList_body(a[1], a[2])
    [] f = "decodeServiceList" -> decodeServiceList_body(a[1])
    [] f = "EncodeServiceDiscoveryRes" -> EncodeServiceDiscoveryRes_body(a[1], a[2])
    [] f = "DecodeServiceDiscoveryRes" -> DecodeServiceDiscoveryRes_body(a[1])
    [] f = "EncodeDC_ACDPReq" -> EncodeDC_ACDPReq_body(a[1], a[2])
    [] f = "DecodeDC_ACDPReq" -> DecodeDC_ACDPReq_body(a[1])
    [] f = "EncodeDC_ACDPRes" -> EncodeDC_ACDPRes_body(a[1], a[2])
    [] f = "DecodeDC_ACDPRes" -> DecodeDC_ACDPRes_body(a[1])
    [] f = "EncodeDC_ACDP_BPTReq" -> EncodeDC_ACDP_BPTReq_body(a[1], a[2])
    [] f = "DecodeDC_ACDP_BPTReq" -> DecodeDC_ACDP_BPTReq_body(a[1])
    [] f = "EncodeDC_ACDP_BPTRes" -> EncodeDC_ACDP_BPTRes_body(a[1], a[2])
    [] f = "DecodeDC_ACDP_BPTRes" -> DecodeDC_ACDP_BPTRes_body(a[1])
    [] f = "EncodeWPT_AlignmentCheckReq" -> EncodeWPT_AlignmentCheckReq_body(a[1], a[2])
    [] f = "DecodeWPT_AlignmentCheckReq" -> DecodeWPT_AlignmentCheckReq_body(a[1])
    [] f = "EncodeWPT_FinePositioningReq" -> EncodeWPT_FinePositioningReq_body(a[1], a[2])
    [] f = "DecodeWPT_FinePositioningReq" -> DecodeWPT_FinePositioningReq_body(a[1])
    [] f = "writeOffset" -> writeOffset_body(a[1], a[2])
    [] f = "EncodeWPT_AlignmentCheckRes" -> EncodeWPT_AlignmentCheckRes_body(a[1], a[2])
    [] f = "DecodeWPT_AlignmentCheckRes" -> DecodeWPT_AlignmentCheckRes_body(a[1])
    [] f = "EncodeWPT_FinePositioningRes" -> EncodeWPT_FinePositioningRes_body(a[1], a[2])
    [] f = "DecodeWPT_FinePositioningRes" -> DecodeWPT_FinePositioningRes_body(a[1])
    [] f = "EncodeWPT_ChargeLoopReq" -> EncodeWPT_ChargeLoopReq_body(a[1], a[2])
    [] f = "DecodeWPT_ChargeLoopReq" -> DecodeWPT_ChargeLoopReq_body(a[1])
    [] f = "EncodeWPT_ChargeLoopRes" -> EncodeWPT_ChargeLoopRes_body(a[1], a[2])
    [] f = "DecodeWPT_ChargeLoopRes" -> DecodeWPT_ChargeLoopRes_body(a[1])
    [] f = "EncodeCLReqControlMode" -> EncodeCLReqControlMode_body(a[1], a[2])
    [] f = "DecodeCLReqControlMode" -> DecodeCLReqControlMode_body(a[1])
    [] f = "EncodeCLResControlMode" -> EncodeCLResControlMode_body(a[1], a[2])
    [] f = "DecodeCLResControlMode" -> DecodeCLResControlMode_body(a[1])
    [] f = "EncodeVehicleCheckInReq" -> EncodeVehicleCheckInReq_body(a[1], a[2])
    [] f = "DecodeVehicleCheckInReq" -> DecodeVehicleCheckInReq_body(a[1])
    [] f = "writeVarField" -> writeVarField_body(a[1], a[2])
    [] f = "readVarField" -> readVarField_body(a[1])
    [] f = "EncodeVehicleCheckOutReq" -> EncodeVehicleCheckOutReq_body(a[1], a[2])
    [] f = "DecodeVehicleCheckOutReq" -> DecodeVehicleCheckOutReq_body(a[1])
    [] f = "encodeSelectedService" -> encodeSelectedService_body(a[1], a[2])
    [] f = "decodeSelectedService" -> decodeSelectedService_body(a[1])
    [] f = "encodeSelectedServiceList" -> encodeSelectedServiceList_body(a[1], a[2])
    [] f = "decodeSelectedServiceList" -> decodeSelectedServiceList_body(a[1])
    [] f = "EncodeServiceSelectionReq" -> EncodeServiceSelectionReq_body(a[1], a[2])
    [] f = "DecodeServiceSelectionReq" -> DecodeServiceSelectionReq_body(a[1])
    [] f = "EncodePowerDeliveryRes" -> EncodePowerDeliveryRes_body(a[1], a[2])
    [] f = "DecodePowerDeliveryRes" -> DecodePowerDeliveryRes_body(a[1])
    [] f = "EncodeVehicleCheckInRes" -> EncodeVehicleCheckInRes_body(a[1], a[2])
    [] f = "DecodeVehicleCheckInRes" -> DecodeVehicleCheckInRes_body(a[1])
    [] f = "EncodeVehicleCheckOutRes" -> EncodeVehicleCheckOutRes_body(a[1], a[2])
    [] f = "DecodeVehicleCheckOutRes" -> DecodeVehicleCheckOutRes_body(a[1])
    [] f = "EncodeScheduleExchangeReq" -> EncodeScheduleExchangeReq_body(a[1], a[2])
    [] f = "DecodeScheduleExchangeReq" -> DecodeScheduleExchangeReq_body(a[1])
    [] f = "EncodeScheduleExchangeRes" -> EncodeScheduleExchangeRes_body(a[1], a[2])
    [] f = "DecodeScheduleExchangeRes" -> DecodeScheduleExchangeRes_body(a[1])
    [] f = "writeStringList" -> writeStringList_body(a[1], a[2])
    [] f = "readStringList" -> readStringList_body(a[1])
    [] f = "encodePnC_ASResAuthorizationMode" -> encodePnC_ASResAuthorizationMode_body(a[1], a[2])
    [] f = "decodePnC_ASResAuthorizationMode" -> decodePnC_ASResAuthorizationMode_body(a[1])
    [] f = "EncodeAuthorizationSetupRes" -> EncodeAuthorizationSetupRes_body(a[1], a[2])
    [] f = "DecodeAuthorizationSetupRes" -> DecodeAuthorizationSetupRes_body(a[1])
    [] f = "writeChainField" -> writeChainField_body(a[1], a[2])
    [] f = "readChainField" -> readChainField_body(a[1])
    [] f = "EncodeCertificateInstallationReq" -> EncodeCertificateInstallationReq_body(a[1], a[2])
    [] f = "DecodeCertificateInstallationReq" -> DecodeCertificateInstallationReq_body(a[1])
    [] f = "EncodeCertificateInstallationRes" -> EncodeCertificateInstallationRes_body(a[1], a[2])
    [] f = "DecodeCertificateInstallationRes" -> DecodeCertificateInstallationRes_body(a[1])
    [] f = "writeTopLevel" -> writeTopLevel_body(a[1], a[2])
    [] f = "EncodeTopLevelSessionSetupReq" -> EncodeTopLevelSessionSetupReq_body(a[1], a[2])
    [] f = "EncodeTopLevelSessionSetupRes" -> EncodeTopLevelSessionSetupRes_body(a[1], a[2])
    [] f = "EncodeTopLevelSessionStopReq" -> EncodeTopLevelSessionStopReq_body(a[1], a[2])
    [] f = "EncodeTopLevelSessionStopRes" -> EncodeTopLevelSessionStopRes_body(a[1], a[2])
    [] f = "EncodeTopLevelServiceDiscoveryReq" -> EncodeTopLevelServiceDiscoveryReq_body(a[1], a[2])
    [] f = "EncodeTopLevelServiceDiscoveryRes" -> EncodeTopLevelServiceDiscoveryRes_body(a[1], a[2])
    [] f = "EncodeTopLevelServiceDetailReq" -> EncodeTopLevelServiceDetailReq_body(a[1], a[2])
    [] f = "EncodeTopLevelServiceDetailRes" -> EncodeTopLevelServiceDetailRes_body(a[1], a[2])
    [] f = "EncodeTopLevelServiceSelectionReq" -> EncodeTopLevelServiceSelectionReq_body(a[1], a[2])
    [] f = "EncodeTopLevelServiceSelectionRes" -> EncodeTopLevelServiceSelectionRes_body(a[1], a[2])
    [] f = "EncodeTopLevelAuthorizationReq" -> EncodeTopLevelAuthorizationReq_body(a[1], a[2])
    [] f = "EncodeTopLevelAuthorizationRes" -> EncodeTopLevelAuthorizationRes_body(a[1], a[2])
    [] f = "EncodeTopLevelAuthorizationSetupReq" -> EncodeTopLevelAuthorizationSetupReq_body(a[1], a[2])
    [] f = "EncodeTopLevelAuthorizationSetupRes" -> EncodeTopLevelAuthorizationSetupRes_body(a[1], a[2])
    [] f = "EncodeTopLevelPowerDeliveryReq" -> EncodeTopLevelPowerDeliveryReq_body(a[1], a[2])
    [] f = "EncodeTopLevelPowerDeliveryRes" -> EncodeTopLevelPowerDeliveryRes_body(a[1], a[2])
    [] f = "EncodeTopLevelScheduleExchangeReq" -> EncodeTopLevelScheduleExchangeReq_body(a[1], a[2])
    [] f = "EncodeTopLevelScheduleExchangeRes" -> EncodeTopLevelScheduleExchangeRes_body(a[1], a[2])
    [] f = "EncodeTopLevelMeteringConfirmationReq" -> EncodeTopLevelMeteringConfirmationReq_body(a[1], a[2])
    [] f = "EncodeTopLevelMeteringConfirmationRes" -> EncodeTopLevelMeteringConfirmationRes_body(a[1], a[2])
    [] f = "EncodeTopLevelCertificateInstallationReq" -> EncodeTopLevelCertificateInstallationReq_body(a[1], a[2])
    [] f = "EncodeTopLevelCertificateInstallationRes" -> EncodeTopLevelCertificateInstallationRes_body(a[1], a[2])
    [] f = "EncodeTopLevelVehicleCheckInReq" -> EncodeTopLevelVehicleCheckInReq_body(a[1], a[2])
    [] f = "EncodeTopLevelVehicleCheckInRes" -> EncodeTopLevelVehicleCheckInRes_body(a[1], a[2])
    [] f = "EncodeTopLevelVehicleCheckOutReq" -> EncodeTopLevelVehicleCheckOutReq_body(a[1], a[2])
    [] f = "EncodeTopLevelVehicleCheckOutRes" -> EncodeTopLevelVehicleCheckOutRes_body(a[1], a[2])
    [] f = "EncodeTopLevelCLReqControlMode" -> EncodeTopLevelCLReqControlMode_body(a[1], a[2])
    [] f = "EncodeTopLevelCLResControlMode" -> EncodeTopLevelCLResControlMode_body(a[1], a[2])
    [] f = "EncodeTopLevelWPT_AlignmentCheckReq" -> EncodeTopLevelWPT_AlignmentCheckReq_body(a[1], a[2])
    [] f = "EncodeTopLevelWPT_AlignmentCheckRes" -> EncodeTopLevelWPT_AlignmentCheckRes_body(a[1], a[2])
    [] f = "EncodeTopLevelWPT_FinePositioningReq" -> EncodeTopLevelWPT_FinePositioningReq_body(a[1], a[2])
    [] f = "EncodeTopLevelWPT_FinePositioningRes" -> EncodeTopLevelWPT_FinePositioningRes_body(a[1], a[2])
    [] f = "EncodeTopLevelWPT_ChargeLoopReq" -> EncodeTopLevelWPT_ChargeLoopReq_body(a[1], a[2])
    [] f = "EncodeTopLevelWPT_ChargeLoopRes" -> EncodeTopLevelWPT_ChargeLoopRes_body(a[1], a[2])
    [] f = "EncodeTopLevelDC_ACDPReq" -> EncodeTopLevelDC_ACDPReq_body(a[1], a[2])
    [] f = "EncodeTopLevelDC_ACDPRes" -> EncodeTopLevelDC_ACDPRes_body(a[1], a[2])
    [] f = "EncodeTopLevelDC_ACDP_BPTReq" -> EncodeTopLevelDC_ACDP_BPTReq_body(a[1], a[2])
    [] f = "EncodeTopLevelDC_ACDP_BPTRes" -> EncodeTopLevelDC_ACDP_BPTRes_body(a[1], a[2])
    [] f = "EncodeSwitch" -> EncodeSwitch_body(a[1], a[2])
    [] f = "DecoderOf" -> DecoderOf_body(a[1])
    [] f = "RunDecoder" -> RunDecoder_body(a[1], a[2])
    [] f = "EncodeStream" -> EncodeStream_body(a[1])
    [] f = "EncodeStruct" -> EncodeStruct_body(a[1])
    [] f = "DecodeStruct" -> DecodeStruct_body(a[1], a[2])
    [] f = "DecoderNamed" -> DecoderNamed_body(a[1])
    [] f = "CodecDecodeStruct" -> CodecDecodeStruct_body(a[1], a[2], a[3])
    [] f = "ChainCountInput" -> ChainCountInput_body(a[1])
    [] f = "SessionIDLengthInput" -> SessionIDLengthInput_body(a[1])
    [] f = "EVCCIDLengthInput" -> EVCCIDLengthInput_body(a[1], a[2])
    [] f = "EVProcessingInput" -> EVProcessingInput_body(a[1])
    [] f = "ResponseCodeInput" -> ResponseCodeInput_body(a[1])
    [] f = "EVSEProcessingInput" -> EVSEProcessingInput_body(a[1])
    [] f = "CraftedInput" -> CraftedInput_body(a[1])

\* ------------------------------------------------------- result types
\* the Go type each message decoder returns (its signature)
ResultType(decoder) ==
  CASE decoder = "DecodeAuthorizationReq" -> "AuthorizationReq"
    [] decoder = "DecodeAuthorizationRes" -> "AuthorizationRes"
    [] decoder = "DecodeAuthorizationSetupReq" -> "AuthorizationSetupReq"
    [] decoder = "DecodeAuthorizationSetupRes" -> "AuthorizationSetupRes"
    [] decoder = "DecodeCLReqControlMode" -> "CLReqControlMode"
    [] decoder = "DecodeCLResControlMode" -> "CLResControlMode"
    [] decoder = "DecodeCertificateInstallationReq" -> "CertificateInstallationReq"
    [] decoder = "DecodeCertificateInstallationRes" -> "CertificateInstallationRes"
    [] decoder = "DecodeMeteringConfirmationReq" -> "MeteringConfirmationReq"
    [] decoder = "DecodeMeteringConfirmationRes" -> "MeteringConfirmationRes"
    [] decoder = "DecodePowerDeliveryReq" -> "PowerDeliveryReq"
    [] decoder = "DecodePowerDeliveryRes" -> "PowerDeliveryRes"
    [] decoder = "DecodeScheduleExchangeReq" -> "ScheduleExchangeReq"
    [] decoder = "DecodeScheduleExchangeRes" -> "ScheduleExchangeRes"
    [] decoder = "DecodeServiceDetailReq" -> "ServiceDetailReq"
    [] decoder = "DecodeServiceDetailRes" -> "ServiceDetailRes"
    [] decoder = "DecodeServiceDiscoveryReq" -> "ServiceDiscoveryReq"
    [] decoder = "DecodeServiceDiscoveryRes" -> "ServiceDiscoveryRes"
    [] decoder = "DecodeServiceSelectionReq" -> "ServiceSelectionReq"
    [] decoder = "DecodeServiceSelectionRes" -> "ServiceSelectionRes"
    [] decoder = "DecodeSessionSetupReq" -> "SessionSetupReq"
    [] decoder = "DecodeSessionSetupRes" -> "SessionSetupRes"
    [] decoder = "DecodeSessionStopReq" -> "SessionStopReq"
    [] decoder = "DecodeSessionStopRes" -> "SessionStopRes"
    [] decoder = "DecodeVehicleCheckInReq" -> "VehicleCheckInReq"
    [] decoder = "DecodeVehicleCheckInRes" -> "VehicleCheckInRes"
    [] decoder = "DecodeVehicleCheckOutReq" -> "VehicleCheckOutReq"
    [] decoder = "DecodeVehicleCheckOutRes" -> "VehicleCheckOutRes"
    [] decoder = "DecodeWPT_AlignmentCheckReq" -> "WPT_AlignmentCheckReq"
    [] decoder = "DecodeWPT_AlignmentCheckRes" -> "WPT_AlignmentCheckRes"
    [] decoder = "DecodeWPT_FinePositioningReq" -> "WPT_FinePositioningReq"
    [] decoder = "DecodeWPT_FinePositioningRes" -> "WPT_FinePositioningRes"
    [] decoder = "DecodeWPT_ChargeLoopReq" -> "WPT_ChargeLoopReq"
    [] decoder = "DecodeWPT_ChargeLoopRes" -> "WPT_ChargeLoopRes"
    [] decoder = "DecodeDC_ACDPReq" -> "DC_ACDPReq"
    [] decoder = "DecodeDC_ACDPRes" -> "DC_ACDPRes"
    [] decoder = "DecodeDC_ACDP_BPTReq" -> "DC_ACDP_BPTReq"
    [] decoder = "DecodeDC_ACDP_BPTRes" -> "DC_ACDP_BPTRes"
    [] decoder = "DecodeCertificateUpdateReq" -> "CertificateUpdateReq"
    [] decoder = "DecodeCertificateUpdateRes" -> "CertificateUpdateRes"
    [] OTHER -> "none"

\* the event code table of the stream layout: event code -> variant
EventCodeTable ==
  (0 :> "AuthorizationReq")
  @@ (1 :> "AuthorizationRes")
  @@ (2 :> "AuthorizationSetupReq")
  @@ (3 :> "AuthorizationSetupRes")
  @@ (4 :> "CLReqControlMode")
  @@ (5 :> "CLResControlMode")
  @@ (7 :> "CertificateInstallationReq")
  @@ (8 :> "CertificateInstallationRes")
  @@ (16 :> "MeteringConfirmationReq")
  @@ (17 :> "MeteringConfirmationRes")
  @@ (21 :> "PowerDeliveryReq")
  @@ (22 :> "PowerDeliveryRes")
  @@ (27 :> "ScheduleExchangeReq")
  @@ (28 :> "ScheduleExchangeRes")
  @@ (29 :> "ServiceDetailReq")
  @@ (30 :> "ServiceDetailRes")
  @@ (31 :> "ServiceDiscoveryReq")
  @@ (32 :> "ServiceDiscoveryRes")
  @@ (33 :> "ServiceSelectionReq")
  @@ (34 :> "ServiceSelectionRes")
  @@ (35 :> "SessionSetupReq")
  @@ (36 :> "SessionSetupRes")
  @@ (37 :> "SessionStopReq")
  @@ (38 :> "SessionStopRes")
  @@ (49 :> "VehicleCheckInReq")
  @@ (50 :> "VehicleCheckInRes")
  @@ (51 :> "VehicleCheckOutReq")
  @@ (52 :> "VehicleCheckOutRes")
  @@ (53 :> "WPT_AlignmentCheckReq")
  @@ (54 :> "WPT_AlignmentCheckRes")
  @@ (55 :> "WPT_FinePositioningReq")
  @@ (56 :> "WPT_FinePositioningRes")
  @@ (57 :> "WPT_ChargeLoopReq")
  @@ (58 :> "WPT_ChargeLoopRes")
  @@ (59 :> "DC_ACDPReq")
  @@ (60 :> "DC_ACDPRes")
  @@ (61 :> "DC_ACDP_BPTReq")
  @@ (62 :> "DC_ACDP_BPTRes")

\* the reserved event codes of the stream layout
ReservedCodes == {6} \cup (9..15) \cup (18..20) \cup (23..26) \cup (39..48)

\* ---------------------------------------------------------- state machine
\* One exchange: a caller encodes a message with EncodeStruct (or an
\* adversary crafts bytes), the bytes may be altered in transit, and a
\* receiver decodes them with DecodeStruct or Codec.DecodeStruct.
VARIABLES phase, origin, wire, wireNil, conforming, enc, dec, typeName

\* A caller's BitStream, and what the caller has done with it:
\*   stream  the BitStream, err the error its last call returned
\*   shadow  a BitStream that got the same calls, with WriteBits and ReadBits
\*           wherever the caller used WriteBitsOptimized and ReadBitsOptimized
\*   lastOp  the last call and the stream as it was before the call
\*   pass    since the last Init or Reset: the bits of the writes that
\*           succeeded, whether a call read, whether a call failed,
\*           whether WriteBitsOptimized was called
\*   ops     the calls made so far
VARIABLES stream, shadow, lastOp, pass, ops

exchangeVars == <<phase, origin, wire, wireNil, conforming, enc, dec, typeName>>

streamVars == <<stream, shadow, lastOp, pass, ops>>

\* A C program that uses the cgo bridge from several threads:
\*   lib    the package variables of the bridge (codec set or nil, lastErrC,
\*          versionC) and the C heap: heap[p] is the string allocated at
\*          pointer p and whether it is still allocated; pointer 0 is NULL
\*   thr    for each thread: the pointer its last v2g_last_error returned
\*          and whether the thread has called the API since (or a shutdown
\*          has run), the pointer its last v2g_version returned, the message
\*          of the last error its own calls ran into, and the output buffer
\*          it holds
\*   calls  the API calls made so far
VARIABLES lib, thr, calls

bindingVars == <<lib, thr, calls>>

vars == <<phase, origin, wire, wireNil, conforming, enc, dec, typeName,
          stream, shadow, lastOp, pass, ops, lib, thr, calls>>

Threads == 1..NumThreads

\* the bridge after the package's init(): versionC = C.CString("dev")
NewLib == [codec |-> FALSE, lastErrC |-> 0, versionC |-> 1,
           heap |-> << [text |-> "dev", live |-> TRUE] >>]

NewThread == [err |-> 0, errHeld |-> FALSE, ver |-> 0, verHeld |-> FALSE,
              own |-> "", buf |-> 0]

NoOp == [name |-> "none", n |-> 0, v |-> 0, g |-> U64(0), from |-> NewStream]

NewPass == [written |-> 0, read |-> FALSE, failed |-> FALSE, batched |-> FALSE]

\* what EncodeStruct accepts, and one value of a type it does not know
EncodeInputs == Messages \o LongMessages \o << Msg("MessageHeaderType", H1) >>

NoEncode == [err |-> "ok", trace |-> <<>>, bytePos |-> 0, bitCount |-> 0]

\* bits 8..13 of a stream of at least two bytes
WireEventCode(data) == data[2] \div 4

\* data with bits 8..13 replaced by code
WithEventCode(data, code) == [data EXCEPT ![2] = 4 * code + (data[2] % 4)]

Init ==
  /\ phase = "idle"
  /\ origin = 0
  /\ wire = <<>>
  /\ wireNil = FALSE
  /\ conforming = FALSE
  /\ enc = NoEncode
  /\ dec = NewStream
  /\ typeName = ""
  /\ stream = NewStream
  /\ shadow = NewStream
  /\ lastOp = NoOp
  /\ pass = NewPass
  /\ ops = 0
  /\ lib = NewLib
  /\ thr = [t \in Threads |-> NewThread]
  /\ calls = 0

\* the caller holds r, the result of EncodeStruct on the i-th input
Encoded(i, r) ==
  /\ phase = "idle"
  /\ enc' = [err |-> r.err, trace |-> r.trace, bytePos |-> r.bytePos,
             bitCount |-> r.bitCount]
  /\ wire' = r.out
  /\ phase' = IF r.err = "ok" THEN "encoded" ELSE "failed"
  /\ conforming' = (r.err = "ok")
  /\ origin' = i
  /\ UNCHANGED <<wireNil, dec, typeName>>
  /\ UNCHANGED <<streamVars, bindingVars>>

\* EncodeStruct(v) on the i-th input
Encode(i) == Encoded(i, EncodeStruct(EncodeInputs[i]))

\* the i-th crafted input arrives instead of an encoder's output
Craft(i) ==
  /\ phase = "idle"
  /\ wire' = CraftedInput(i)
  /\ phase' = "encoded"
  /\ UNCHANGED <<origin, wireNil, conforming, enc, dec, typeName>>
  /\ UNCHANGED <<streamVars, bindingVars>>

\* a nil slice arrives
CraftNil ==
  /\ phase = "idle"
  /\ wireNil' = TRUE
  /\ phase' = "encoded"
  /\ UNCHANGED <<origin, wire, conforming, enc, dec, typeName>>
  /\ UNCHANGED <<streamVars, bindingVars>>

\* the first byte of an encoder's output is replaced in transit
SetFirstByte(b) ==
  /\ phase = "encoded" /\ conforming
  /\ Len(wire) >= 1 /\ wire[1] # b
  /\ wire' = [wire EXCEPT ![1] = b]
  /\ conforming' = FALSE
  /\ UNCHANGED <<phase, origin, wireNil, enc, dec, typeName>>
  /\ UNCHANGED <<streamVars, bindingVars>>

\* the event code of an encoder's output is replaced in transit
SetEventCode(c) ==
  /\ phase = "encoded" /\ conforming
  /\ Len(wire) >= 2 /\ wire[1] = 128 /\ WireEventCode(wire) # c
  /\ wire' = WithEventCode(wire, c)
  /\ conforming' = FALSE
  /\ UNCHANGED <<phase, origin, wireNil, enc, dec, typeName>>
  /\ UNCHANGED <<streamVars, bindingVars>>

\* the last k bytes of an encoder's output are lost in transit
Truncate(k) ==
  /\ phase = "encoded" /\ conforming
  /\ Len(wire) >= k
  /\ wire' = SubSeq(wire, 1, Len(wire) - k)
  /\ conforming' = FALSE
  /\ UNCHANGED <<phase, origin, wireNil, enc, dec, typeName>>
  /\ UNCHANGED <<streamVars, bindingVars>>

\* the receiver holds d, the result of its decode call
Decoded(d) ==
  /\ phase = "encoded"
  /\ dec' = d
  /\ phase' = "decoded"
  /\ UNCHANGED <<origin, wire, wireNil, conforming, enc, typeName>>
  /\ UNCHANGED <<streamVars, bindingVars>>

\* DecodeStruct(wire)
Decode == Decoded(DecodeStruct(wire, wireNil))

\* the receiver holds d, the result of Codec.DecodeStruct on an encoder's
\* output with the type name t
CodecDecoded(t, d) ==
  /\ phase = "encoded" /\ conforming
  /\ dec' = d
  /\ typeName' = t
  /\ phase' = "decoded"
  /\ UNCHANGED <<origin, wire, wireNil, conforming, enc>>
  /\ UNCHANGED <<streamVars, bindingVars>>

\* Codec.DecodeStruct(wire, t)
CodecDecode(t) == CodecDecoded(t, CodecDecodeStruct(wire, wireNil, t))

FirstBytes == {0, 127, 129, 255}

Next ==
  \/ \E i \in 1..Len(EncodeInputs) : Encode(i)
  \/ \E i \in CraftedIndices : Craft(i)
  \/ CraftNil
  \/ \E b \in FirstBytes : SetFirstByte(b)
  \/ \E c \in 0..63 : SetEventCode(c)
  \/ \E k \in 1..MaxDrop : Truncate(k)
  \/ Decode
  \/ \E t \in CodecTypeNames \cup {"MessageHeaderType"} : CodecDecode(t)

Spec == Init /\ [][Next]_vars

\* ------------------------------------------------------ BitStream in use
\* A caller holds a BitStream (the zero value at first) and calls Init,
\* Reset, the bit reads and writes and the unsigned-var read and write on it
\* in any order; a call that fails leaves the stream as the code left it.
Fresh(s) == [s EXCEPT !.err = "ok"]

OpFrom(name, n, v, g) ==
  [name |-> name, n |-> n, v |-> v, g |-> g, from |-> Fresh(stream)]

\* bit counts a caller asks for, within 1..32 and outside
Widths == {1, 5, 8, 32}

BadWidths == {0, 33}

\* the n-bit values 11..1 and 1010..1, and for 5 bits a value wider than that
Ones(n) == IF n >= 32 THEN -1 ELSE Pow2(n) - 1

RECURSIVE Alternating(_)
Alternating(n) ==
  IF n <= 0 THEN 0
  ELSE IF n = 1 THEN 1
  ELSE IF n = 32 THEN ShiftIn(ShiftIn(Alternating(30), 0), 1)
  ELSE 4 * Alternating(n - 2) + 1

Values(n) ==
  IF n \in BadWidths THEN {1}
  ELSE IF n = 5 THEN {Ones(n), Alternating(n), Ones(32)}
  ELSE {Ones(n), Alternating(n)}

\* v < 2^n
InWidth(n, v) ==
  IF v < 0 THEN n >= 32 ELSE (n >= 31 \/ v < Pow2(n))

VarValues == {U64(0), U64(300), U64Top, U64Max}

\* what a caller hands to Init: a buffer of zeros, of 0xFF octets, of mixed
\* octets or of an
\* encoded unsigned integer (or nil) and an offset inside or outside it
Buffer(b) == [i \in 1..BufSize |-> b]

\* the octets of 2^64 - 1 (nine with the continuation flag, then 0x01)
\* followed by 0xFF octets
MaxVarBuffer == VarOctets(U64Max) \o [i \in 1..(BufSize - 10) |-> 255]

\* the octets FF 00 AA 55 over and over
SeedBuffer == [i \in 1..BufSize |-> <<255, 0, 170, 85>>[((i - 1) % 4) + 1]]

StreamInits ==
  {[data |-> Buffer(b), isNil |-> FALSE, off |-> o] :
     b \in {0, 255}, o \in {0, BufSize - 1, BufSize + 1}}
  \cup {[data |-> Buffer(0), isNil |-> FALSE, off |-> -1],
        [data |-> MaxVarBuffer, isNil |-> FALSE, off |-> 0],
        [data |-> SeedBuffer, isNil |-> FALSE, off |-> 0],
        [data |-> <<>>, isNil |-> TRUE, off |-> 0]}

PassAfterWrite(r, bits) ==
  IF r.err = "ok" THEN [pass EXCEPT !.written = pass.written + bits]
  ELSE [pass EXCEPT !.failed = TRUE]

PassAfterRead(r) ==
  [pass EXCEPT !.read = TRUE, !.failed = pass.failed \/ r.err # "ok"]

\* bs.Init(data, off)
StreamInit(data, isNil, off) ==
  /\ ops < MaxOps
  /\ stream' = BitStreamInit(Fresh(stream), data, isNil, off)
  /\ shadow' = BitStreamInit(Fresh(shadow), data, isNil, off)
  /\ lastOp' = OpFrom("Init", off, 0, U64(0))
  /\ pass' = NewPass
  /\ ops' = ops + 1
  /\ UNCHANGED <<exchangeVars, bindingVars>>

\* bs.Reset()
StreamReset ==
  /\ ops < MaxOps
  /\ stream' = Reset(Fresh(stream))
  /\ shadow' = Reset(Fresh(shadow))
  /\ lastOp' = OpFrom("Reset", 0, 0, U64(0))
  /\ pass' = NewPass
  /\ ops' = ops + 1
  /\ UNCHANGED <<exchangeVars, bindingVars>>

\* bs.WriteBits(n, v)
StreamWriteBits(n, v) ==
  /\ ops < MaxOps
  /\ stream' = WriteBits(Fresh(stream), n, v)
  /\ shadow' = WriteBits(Fresh(shadow), n, v)
  /\ lastOp' = OpFrom("WriteBits", n, v, U64(0))
  /\ pass' = PassAfterWrite(stream', n)
  /\ ops' = ops + 1
  /\ UNCHANGED <<exchangeVars, bindingVars>>

\* bs.WriteBitsOptimized(n, v)
StreamWriteBitsOptimized(n, v) ==
  /\ ops < MaxOps
  /\ stream' = WriteBitsOptimized(Fresh(stream), n, v)
  /\ shadow' = WriteBits(Fresh(shadow), n, v)
  /\ lastOp' = OpFrom("WriteBitsOptimized", n, v, U64(0))
  /\ pass' = [PassAfterWrite(stream', n) EXCEPT !.batched = TRUE]
  /\ ops' = ops + 1
  /\ UNCHANGED <<exchangeVars, bindingVars>>

\* bs.ReadBits(n)
StreamReadBits(n) ==
  /\ ops < MaxOps
  /\ stream' = ReadBits(Fresh(stream), n)
  /\ shadow' = ReadBits(Fresh(shadow), n)
  /\ lastOp' = OpFrom("ReadBits", n, 0, U64(0))
  /\ pass' = PassAfterRead(stream')
  /\ ops' = ops + 1
  /\ UNCHANGED <<exchangeVars, bindingVars>>

\* bs.ReadBitsOptimized(n)
StreamReadBitsOptimized(n) ==
  /\ ops < MaxOps
  /\ stream' = ReadBitsOptimized(Fresh(stream), n)
  /\ shadow' = ReadBits(Fresh(shadow), n)
  /\ lastOp' = OpFrom("ReadBitsOptimized", n, 0, U64(0))
  /\ pass' = PassAfterRead(stream')
  /\ ops' = ops + 1
  /\ UNCHANGED <<exchangeVars, bindingVars>>

\* bs.WriteUnsignedVar(g)
StreamWriteUnsignedVar(g) ==
  /\ ops < MaxOps
  /\ stream' = WriteUnsignedVar(Fresh(stream), g)
  /\ shadow' = WriteUnsignedVar(Fresh(shadow), g)
  /\ lastOp' = OpFrom("WriteUnsignedVar", 0, 0, g)
  /\ pass' = PassAfterWrite(stream', 8 * Len(VarOctets(g)))
  /\ ops' = ops + 1
  /\ UNCHANGED <<exchangeVars, bindingVars>>

\* bs.ReadUnsignedVar()
StreamReadUnsignedVar ==
  /\ ops < MaxOps
  /\ stream' = ReadUnsignedVar(Fresh(stream))
  /\ shadow' = ReadUnsignedVar(Fresh(shadow))
  /\ lastOp' = OpFrom("ReadUnsignedVar", 0, 0, U64(0))
  /\ pass' = PassAfterRead(stream')
  /\ ops' = ops + 1
  /\ UNCHANGED <<exchangeVars, bindingVars>>

StreamNext ==
  \/ \E i \in StreamInits : StreamInit(i.data, i.isNil, i.off)
  \/ StreamReset
  \/ \E n \in Widths \cup BadWidths : \E v \in Values(n) : StreamWriteBits(n, v)
  \/ \E n \in Widths \cup BadWidths : \E v \in Values(n) : StreamWriteBitsOptimized(n, v)
  \/ \E n \in Widths \cup BadWidths : StreamReadBits(n)
  \/ \E n \in Widths \cup BadWidths : StreamReadBitsOptimized(n)
  \/ \E g \in VarValues : StreamWriteUnsignedVar(g)
  \/ StreamReadUnsignedVar

StreamSpec == Init /\ [][StreamNext]_vars

\* ------------------------------------------------------------ cgo bridge
\* Each API call is one step: setLastError and getLastErrorC run under
\* errMu, the calls that read or replace codec under stateMu.
\* C.free(p)
Free(heap, p) == IF p = 0 THEN heap ELSE [heap EXCEPT ![p].live = FALSE]

\* C.CString(text), C.CBytes, C.malloc: the new allocation is the last one
Alloc(heap, text) == Append(heap, [text |-> text, live |-> TRUE])

\* setLastError(format, a...)
setLastError(l, text) ==
  LET h1 == Free(l.heap, l.lastErrC)
  IN [l EXCEPT !.heap = Alloc(h1, text), !.lastErrC = Len(h1) + 1]

\* getLastErrorC()
getLastErrorC(l) == l.lastErrC

\* cleanup()
cleanup(l) ==
  [l EXCEPT !.heap = Free(Free(l.heap, l.lastErrC), l.versionC),
            !.lastErrC = 0, !.versionC = 0]

\* thread t has made an API call: the pointer of an earlier v2g_last_error
\* is no longer promised to it
Called(t) == [thr EXCEPT ![t].errHeld = FALSE]

\* thread t has made an API call that failed with the message text
Failed(t, text) == [thr EXCEPT ![t].errHeld = FALSE, ![t].own = text]

\* v2g_init()
v2g_init(t) ==
  /\ calls < MaxCalls
  /\ lib' = [lib EXCEPT !.codec = TRUE]
  /\ thr' = Called(t)
  /\ calls' = calls + 1
  /\ UNCHANGED <<exchangeVars, streamVars>>

\* v2g_shutdown(): with a codec set it runs cleanup(); the pointers of
\* earlier v2g_last_error calls are promised until shutdown only
v2g_shutdown(t) ==
  /\ calls < MaxCalls
  /\ lib' = IF lib.codec THEN cleanup([lib EXCEPT !.codec = FALSE]) ELSE lib
  /\ thr' = [u \in Threads |-> [thr[u] EXCEPT !.errHeld = FALSE]]
  /\ calls' = calls + 1
  /\ UNCHANGED <<exchangeVars, streamVars>>

\* v2g_load_schemas(paths, count)
v2g_load_schemas(t, count) ==
  /\ calls < MaxCalls
  /\ IF count = 0
     THEN /\ lib' = setLastError(lib, "v2g_load_schemas: no schema paths provided")
          /\ thr' = Failed(t, "v2g_load_schemas: no schema paths provided")
     ELSE /\ lib' = [lib EXCEPT !.codec = TRUE]
          /\ thr' = Called(t)
  /\ calls' = calls + 1
  /\ UNCHANGED <<exchangeVars, streamVars>>

\* v2g_encode_xml(xml, xml_len, out_exi, out_len); xml is "nil", "malformed"
\* or "wellformed"
v2g_encode_xml(t, xml) ==
  /\ calls < MaxCalls
  /\ LET text == IF xml = "nil" THEN "v2g_encode_xml: invalid arguments"
                 ELSE IF ~lib.codec THEN "v2g_encode_xml: codec not initialized"
                 ELSE IF xml = "malformed" THEN "encode failed"
                 ELSE ""
     IN IF text # ""
        THEN /\ lib' = setLastError(lib, text)
             /\ thr' = Failed(t, text)
        ELSE /\ lib' = [lib EXCEPT !.heap = Alloc(lib.heap, "exi")]
             /\ thr' = [Called(t) EXCEPT ![t].buf = Len(lib.heap) + 1]
  /\ calls' = calls + 1
  /\ UNCHANGED <<exchangeVars, streamVars>>

\* v2g_decode_exi(exi, exi_len, out_xml, out_len); exi is "nil", "malformed"
\* or "wellformed"
v2g_decode_exi(t, exi) ==
  /\ calls < MaxCalls
  /\ LET text == IF exi = "nil" THEN "v2g_decode_exi: invalid arguments"
                 ELSE IF ~lib.codec THEN "v2g_decode_exi: codec not initialized"
                 ELSE IF exi = "malformed" THEN "decode failed"
                 ELSE ""
     IN IF text # ""
        THEN /\ lib' = setLastError(lib, text)
             /\ thr' = Failed(t, text)
        ELSE /\ lib' = [lib EXCEPT !.heap = Alloc(lib.heap, "xml")]
             /\ thr' = [Called(t) EXCEPT ![t].buf = Len(lib.heap) + 1]
  /\ calls' = calls + 1
  /\ UNCHANGED <<exchangeVars, streamVars>>

\* v2g_free_buffer(buf) on the output buffer the thread holds (or NULL)
v2g_free_buffer(t) ==
  /\ calls < MaxCalls
  /\ lib' = [lib EXCEPT !.heap = Free(lib.heap, thr[t].buf)]
  /\ thr' = [Called(t) EXCEPT ![t].buf = 0]
  /\ calls' = calls + 1
  /\ UNCHANGED <<exchangeVars, streamVars>>

\* v2g_last_error()
v2g_last_error(t) ==
  /\ calls < MaxCalls
  /\ thr' = [thr EXCEPT ![t].err = getLastErrorC(lib), ![t].errHeld = TRUE]
  /\ calls' = calls + 1
  /\ UNCHANGED <<lib, exchangeVars, streamVars>>

\* v2g_version()
v2g_version(t) ==
  /\ calls < MaxCalls
  /\ thr' = [Called(t) EXCEPT ![t].ver = lib.versionC, ![t].verHeld = TRUE]
  /\ calls' = calls + 1
  /\ UNCHANGED <<lib, exchangeVars, streamVars>>

\* v2g_set_option(name, value); name is "nil", "use-stub" or another name
v2g_set_option(t, name) ==
  /\ calls < MaxCalls
  /\ IF name = "nil"
     THEN /\ lib' = setLastError(lib, "v2g_set_option: name is nil")
          /\ thr' = Failed(t, "v2g_set_option: name is nil")
     ELSE IF name = "use-stub"
     THEN /\ lib' = [lib EXCEPT !.codec = TRUE]
          /\ thr' = Called(t)
     ELSE /\ lib' = setLastError(lib, "unknown option")
          /\ thr' = Failed(t, "unknown option")
  /\ calls' = calls + 1
  /\ UNCHANGED <<exchangeVars, streamVars>>

Inputs == {"nil", "malformed", "wellformed"}

BindingNext ==
  \E t \in Threads :
    \/ v2g_init(t)
    \/ v2g_shutdown(t)
    \/ \E count \in {0, 1} : v2g_load_schemas(t, count)
    \/ \E xml \in Inputs : v2g_encode_xml(t, xml)
    \/ \E exi \in Inputs : v2g_decode_exi(t, exi)
    \/ v2g_free_buffer(t)
    \/ v2g_last_error(t)
    \/ v2g_version(t)
    \/ \E name \in {"nil", "use-stub", "debug"} : v2g_set_option(t, name)

BindingSpec == Init /\ [][BindingNext]_vars

\* ----------------------------------------------------------------- claims
Range(f) == {f[x] : x \in DOMAIN f}

\* the value handed to EncodeStruct in this exchange
OriginType == EncodeInputs[origin].type
OriginMsg  == EncodeInputs[origin].msg

\* DecodeStruct has returned on the unaltered output of EncodeStruct
RoundTripped == phase = "decoded" /\ conforming /\ typeName = ""

\* DecodeStruct has returned on a non-nil slice
DecodeStructReturned == phase = "decoded" /\ typeName = "" /\ ~wireNil

\* a decoder has returned on the unaltered output of the encoder of its own
\* type: DecodeStruct after EncodeStruct, or Codec.DecodeStruct by type name
\* where EncodeStruct wrote the message grammar alone
BareEncoding == enc.trace = <<>> \/ enc.trace[1] # <<8, 128>>
PairedDecode ==
  /\ phase = "decoded" /\ conforming
  /\ ResultType(dec.invoked) = OriginType
  /\ typeName = "" \/ BareEncoding

\* the bits a sequence of WriteBits calls puts on the wire: the low
\* bitCount bits of each value
WrittenBits(trace) ==
  [k \in 1..Len(trace) |-> <<trace[k][1], trace[k][2] % (2 ^ trace[k][1])>>]

\* C1: for every message value v that EncodeStruct accepts,
\* DecodeStruct(EncodeStruct(v)) succeeds and returns a value equal to v in
\* every field.
RoundTripIdentity ==
  RoundTripped => dec.err = "ok" /\ dec.val = OriginMsg

\* C2: DecodeStruct never panics, whatever the bytes: every call returns a
\* value or an error.
DecodeNeverPanics ==
  phase = "decoded" => ~dec.panicked

\* C3: the decoder of a message type reads exactly the bit fields its encoder
\* wrote, with the same widths and values in the same order, and stops at
\* the bit position where the encoder stopped.
DecoderMirrorsEncoder ==
  PairedDecode =>
    /\ dec.err = "ok"
    /\ dec.trace = WrittenBits(enc.trace)
    /\ dec.bytePos = enc.bytePos /\ dec.bitCount = enc.bitCount

\* DecodeStruct has returned on a stream that starts with 0x80 and carries
\* an event code
EventCodeDecoded ==
  DecodeStructReturned /\ Len(wire) >= 2 /\ wire[1] = 128

\* the event codes the table of the stream layout leaves out, but for 45,
\* the earlier code of VehicleCheckOutRes
UnassignedCodes == ((0..63) \ DOMAIN EventCodeTable) \ {45}

\* C4 (as stated): a stream that starts with 0x80 and carries a reserved
\* event code (6, 9-15, 18-20, 23-26, 39-48) fails with UnsupportedMessage
\* and no message decoder is invoked.
ReservedCodeRejected ==
  (EventCodeDecoded /\ WireEventCode(wire) \in ReservedCodes) =>
    dec.err = "UnsupportedMessage" /\ dec.invoked = "none"

\* C4 (amended): a stream that starts with 0x80 and carries an event code
\* that is neither in the table nor the legacy code 45 fails with
\* UnsupportedMessage and no message decoder is invoked.
UnassignedCodeRejected ==
  (EventCodeDecoded /\ WireEventCode(wire) \in UnassignedCodes) =>
    dec.err = "UnsupportedMessage" /\ dec.invoked = "none"

UnassignedCodeSeen ==
  /\ EventCodeDecoded /\ WireEventCode(wire) = 47
  /\ dec.err = "UnsupportedMessage" /\ dec.invoked = "none"

EncodedPrefix ==
  (phase = "encoded" /\ conforming) =>
    /\ Len(wire) >= 2 /\ wire[1] = 128
    /\ \E E \in DOMAIN EventCodeTable :
         EventCodeTable[E] = OriginType /\ WireEventCode(wire) = E

\* C7: a stream whose first octet is not 0x80 fails with InvalidInput; the
\* octet is all that is read, and no message decoder is invoked.
BadHeaderRejected ==
  (DecodeStructReturned /\ Len(wire) >= 1 /\ wire[1] # 128) =>
    /\ dec.err = "InvalidInput"
    /\ dec.trace = << <<8, wire[1]>> >>
    /\ dec.invoked = "none"

BadHeaderSeen ==
  /\ DecodeStructReturned /\ Len(wire) >= 2 /\ wire[1] = 129
  /\ dec.err = "InvalidInput" /\ dec.invoked = "none"

\* a length prefix stands for more bytes than the input still holds
ClaimsMoreThanRemains(l) ==
  ~FitsInt(l.claimed) \/ 8 * (Low28(l.claimed) - l.less) > l.remBits

\* C8: when a length prefix claims more bytes than remain in the input, the
\* decoder fails with Overflow.
LengthBeyondInputFails ==
  phase = "decoded" =>
    \A k \in DOMAIN dec.lens :
      ClaimsMoreThanRemains(dec.lens[k]) => dec.err = "Overflow"

\* C9: a decoder fails on an oversized length or count before it allocates:
\* no make() is asked for more elements than the input has bits left.
NoOversizedAllocation ==
  phase = "decoded" =>
    \A k \in DOMAIN dec.allocs : dec.allocs[k].n <= 8 * dec.allocs[k].rem

\* C10: a decoded enum string is a member of the field's own table: the
\* EVProcessing of a decoded PowerDeliveryReq is Finished or Ongoing.
DecodedEnumInTable ==
  (phase = "decoded" /\ dec.err = "ok" /\ dec.invoked = "DecodePowerDeliveryReq") =>
    dec.val.EVProcessing \in EVProcessingTable

\* EncodeStruct has returned on the value at origin
EncodeStructReturned ==
  origin # 0 /\ (phase = "failed" \/ (phase = "encoded" /\ conforming))

\* what the encoder of the value at origin writes when the buffer is no
\* limit: the type switch of EncodeStruct on a buffer of twice the size
UnboundedEncoding ==
  EncodeSwitch(BitStreamInit(NewStream, [i \in 1..(2 * defaultEncodeBufferSize) |-> 0],
                             FALSE, 0), EncodeInputs[origin])

\* C11: when the encoding of a message needs more bytes than the encoder's
\* buffer holds, EncodeStruct fails with Overflow and returns no bytes; when
\* it succeeds, the bytes returned are the whole encoding.
OversizeEncodingFails ==
  EncodeStructReturned =>
    LET full == UnboundedEncoding
    IN full.err = "ok" =>
         IF Length(full) > defaultEncodeBufferSize
         THEN phase = "failed" /\ enc.err = "Overflow" /\ wire = <<>>
         ELSE /\ phase = "encoded" /\ enc.err = "ok"
              /\ wire = SubSeq(full.data, 1, Length(full))

OversizeEncodingSeen ==
  /\ phase = "failed" /\ enc.err = "Overflow" /\ wire = <<>>
  /\ OriginType = "SessionSetupReq"
  /\ Len(OriginMsg.EVCCID) = defaultEncodeBufferSize - 7
  /\ Length(UnboundedEncoding) = defaultEncodeBufferSize + 1

DecodeLoopsConsume ==
  /\ phase = "decoded" =>
       /\ ~dec.idleTurn
       /\ dec.turns <= BitsPassed(dec)
       /\ BitsPassed(dec) <= 8 * Len(wire)
  /\ (phase = "encoded" /\ conforming) =>
       Len(enc.trace) <= 8 * enc.bytePos + enc.bitCount

DecodeLoopSeen ==
  /\ phase = "decoded" /\ dec.invoked = "DecodeServiceDiscoveryRes"
  /\ dec.err = "ok" /\ dec.turns >= 3

\* ------------------------------------------------- BitStream properties
\* a reader on the stream's buffer placed where the last call began
ReaderAtStart ==
  [stream EXCEPT !.bytePos = lastOp.from.bytePos,
                 !.bitCount = lastOp.from.bitCount,
                 !.err = "ok"]

BatchedWritesIdentical ==
  (pass.batched /\ ~pass.read) => stream.data = shadow.data

\* the bits of the current byte below the cursor
UnwrittenBits(bs) == bs.data[bs.bytePos + 1] % Pow2(exiBitstreamMaxBitCount - bs.bitCount)

\* C16: whenever the first bit of a new byte is written, by any write
\* operation and on any prior buffer content, the byte is treated as zero:
\* in a pass of writes (since Init or Reset) the bits of the current byte
\* that the pass has not written yet are 0.
FreshByteCleared ==
  (/\ ~pass.read /\ ~stream.dataNil
   /\ stream.bitCount \in 1..(exiBitstreamMaxBitCount - 1)
   /\ stream.bytePos < stream.dataSize)
  => UnwrittenBits(stream) = 0

\* the reads and writes of a BitStream, and those that take a bit count
BitCalls == {"WriteBits", "WriteBitsOptimized", "ReadBits", "ReadBitsOptimized"}

ReadsAndWrites == BitCalls \cup {"WriteUnsignedVar", "ReadUnsignedVar"}

\* the last call was turned away for its bit count
Rejected == lastOp.name \in BitCalls /\ lastOp.n \notin 1..32

CursorInBounds ==
  /\ stream.bytePos \in 0..stream.dataSize
  /\ stream.bitCount \in 0..exiBitstreamMaxBitCount

\* the last call was a read or write that moved the cursor to the end of
\* a byte of the buffer
FilledByte ==
  /\ lastOp.name \in ReadsAndWrites
  /\ stream.bitCount = exiBitstreamMaxBitCount
  /\ stream.bytePos < stream.dataSize
  /\ BitsPassed(stream) > BitsPassed(lastOp.from)

CursorKept ==
  /\ stream.bytePos = lastOp.from.bytePos
  /\ stream.bitCount = lastOp.from.bitCount

WrittenBitsAndLength ==
  (stream.initCalled /\ ~pass.read /\ ~pass.failed)
  => /\ BitsPassed(stream) - 8 * stream.flagBytePos = pass.written
     /\ Length(stream) = (pass.written + 7) \div 8

\* six bits written in two writes into the last byte of the buffer
WrittenBitsAndLengthSeen ==
  /\ stream.initCalled /\ ~pass.read /\ ~pass.failed
  /\ stream.flagBytePos = BufSize - 1
  /\ lastOp.name \in {"WriteBits", "WriteBitsOptimized"}
  /\ lastOp.from.bitCount = 5 /\ lastOp.n = 1
  /\ pass.written = 6 /\ Length(stream) = 1

RECURSIVE Continued(_, _)
Continued(bs, k) ==
  IF k <= 0 THEN TRUE
  ELSE LET r == ReadOctet(bs)
       IN r.err = "ok" /\ r.val >= 128 /\ Continued(r, k - 1)

\* C20: ReadUnsignedVar fails with BitCountOutOfRange when the shift would
\* pass 64, that is exactly when ten octets in a row carry the continuation
\* flag, so on any input it reads at most 10 octets.
UnsignedVarTenOctets ==
  lastOp.name = "ReadUnsignedVar"
  => /\ BitsPassed(stream) - BitsPassed(lastOp.from) <= 10 * 8
     /\ stream.err = "BitCountOutOfRange" <=> Continued(ReaderAtStart, 10)
     /\ stream.err = "BitCountOutOfRange"
        => BitsPassed(stream) - BitsPassed(lastOp.from) = 10 * 8
     /\ (Continued(ReaderAtStart, 9) /\ stream.err = "ok")
        => BitsPassed(stream) - BitsPassed(lastOp.from) = 10 * 8

\* ten 0xFF octets read from the sixth bit of a byte, two more left unread
UnsignedVarTenOctetsSeen ==
  /\ lastOp.name = "ReadUnsignedVar"
  /\ stream.err = "BitCountOutOfRange"
  /\ lastOp.from.bitCount = 5 /\ lastOp.from.bytePos = 0
  /\ BitsPassed(stream) = 85
  /\ stream.dataSize - stream.bytePos >= 2

\* --------------------------------------------------- grammar properties
\* the writes of a boolean field: START, value-type marker, value, END
BoolFieldBits(b) == << <<1, 0>>, <<1, 0>>, <<1, IF b THEN 1 ELSE 0>>, <<1, 0>> >>

\* the places of the writes of w bits in a sequence of writes
WritesOf(trace, w) == {k \in 1..Len(trace) : trace[k][1] = w}

\* the services of a ServiceDiscoveryRes in the order they are written
ServicesOf(v) ==
  v.EnergyTransferServiceList.Services
    \o (IF v.VASList # <<>> THEN v.VASList[1].Services ELSE <<>>)

\* EncodeStruct has returned the bytes of a ServiceDiscoveryRes
DiscoveryResEncoded ==
  phase = "encoded" /\ conforming /\ OriginType = "ServiceDiscoveryRes"

\* C21: every boolean field is written as exactly four bits, START (0),
\* value-type marker (0), value bit, END (0): in an encoded
\* ServiceDiscoveryRes the four writes that follow the END of ResponseCode
\* are those of ServiceRenegotiationSupported, and the four writes that
\* follow the END of each ServiceID are those of that service's FreeService.
BooleanFieldFourBits ==
  DiscoveryResEncoded
  => LET rc == CHOOSE k \in WritesOf(enc.trace, 6) :
                 k > 2 /\ \A j \in WritesOf(enc.trace, 6) : j > 2 => k <= j
         ids == WritesOf(enc.trace, 16)
     IN /\ SubSeq(enc.trace, rc + 2, rc + 5)
             = BoolFieldBits(OriginMsg.ServiceRenegotiationSupported)
        /\ Cardinality(ids) = Len(ServicesOf(OriginMsg))
        /\ \A k \in ids :
             SubSeq(enc.trace, k + 2, k + 5)
               = BoolFieldBits(ServicesOf(OriginMsg)[Cardinality({j \in ids : j <= k})].FreeService)

\* the selector of a choice over two optional fields that may both be there
Selector(first, second) ==
  IF first /\ second THEN 0 ELSE IF first THEN 1 ELSE IF second THEN 2 ELSE 3

\* the place of the first write of w bits in a sequence of writes
FirstWrite(trace, w) ==
  CHOOSE k \in WritesOf(trace, w) : \A j \in WritesOf(trace, w) : k <= j

\* the place of the first write of w bits after place k
NextWrite(trace, w, k) ==
  CHOOSE i \in WritesOf(trace, w) : i > k /\ \A j \in WritesOf(trace, w) : j > k => i <= j

EncodedAs(t) == phase = "encoded" /\ conforming /\ OriginType = t

\* the selector written by EncodePowerDeliveryReq, a write of 3 bits
PowerDeliverySelector == enc.trace[FirstWrite(enc.trace, 3)]

\* the place of the write that follows the END of ChargingSession in a
\* SessionStopReq; the header holds the first write of 2 bits and the value
\* of ChargingSession is the second
SessionStopSelectorAt == NextWrite(enc.trace, 2, FirstWrite(enc.trace, 2)) + 2

SessionStopSelector == enc.trace[SessionStopSelectorAt]

RationalBits(r) ==
  << <<1, 0>>, <<1, 0>>, <<8, ToU8(r.Exponent)>>, <<1, 0>>,
     <<1, 0>>, <<1, 0>>, <<16, ToU16(r.Value)>> , <<1, 0>> >>

\* the bits of a sequence of writes
RECURSIVE BitsOfWrites(_)
BitsOfWrites(trace) ==
  IF trace = <<>> THEN 0 ELSE Head(trace)[1] + BitsOfWrites(Tail(trace))

\* the writes of EVTargetEnergyRequest in an encoded DC_ACDPReq: those
\* between the START that follows the END of EVProcessing (the second
\* write of 2 bits) and the END of the message
TargetEnergyWrites ==
  SubSeq(enc.trace, NextWrite(enc.trace, 2, FirstWrite(enc.trace, 2)) + 3,
         Len(enc.trace) - 1)

\* C23: a RationalNumber is encoded as a bracketed Exponent of fixed 8
\* bits followed by a bracketed Value of fixed 16 bits (two's complement),
\* so its encoding occupies the same number of bits, 30, for every
\* Exponent and Value.
RationalNumberFixedWidth ==
  EncodedAs("DC_ACDPReq")
  => /\ TargetEnergyWrites = RationalBits(OriginMsg.EVTargetEnergyRequest)
     /\ BitsOfWrites(TargetEnergyWrites) = 30

\* C24: for every buffer content and every bit count n with 1 <= n <= 32,
\* ReadBitsOptimized succeeds exactly when ReadBits succeeds on the same
\* stream (freshly initialised, or wherever earlier calls left it), and
\* when both succeed they return the same value and stop at the same bit.
BatchedReadAgrees ==
  (lastOp.name = "ReadBitsOptimized" /\ lastOp.n \in 1..32)
  => LET r == ReadBits(lastOp.from, lastOp.n)
     IN /\ (stream.err = "ok") <=> (r.err = "ok")
        /\ stream.err = "ok"
           => /\ stream.val = r.val
              /\ stream.bytePos = r.bytePos /\ stream.bitCount = r.bitCount

\* 32 bits read across five octets of FF 00 AA 55 FF, from the sixth bit
BatchedReadAgreesSeen ==
  /\ lastOp.name = "ReadBitsOptimized" /\ lastOp.n = 32
  /\ lastOp.from.data = SeedBuffer
  /\ lastOp.from.bytePos = 0 /\ lastOp.from.bitCount = 5
  /\ stream.err = "ok"
  /\ stream.val = ReadBits(lastOp.from, 32).val
  /\ stream.val \notin {0, -1}


\* the offsets of a WPT_AlignmentCheckRes, each absent (<<>>) or present
OffsetsOf(v) == <<v.AlignmentOffset_X, v.AlignmentOffset_Y, v.AlignmentOffset_Z>>

\* C27: a WPT_AlignmentCheckRes with any subset of its offsets present
\* decodes, after EncodeStruct, without error to a value with the same
\* offsets present and equal.
AlignmentOffsetsRoundTrip ==
  (RoundTripped /\ OriginType = "WPT_AlignmentCheckRes")
    => (dec.err = "ok" /\ OffsetsOf(dec.val) = OffsetsOf(OriginMsg))

\* Codec.DecodeStruct ran on the bytes EncodeStruct returned, under the type
\* name of the encoded value
CodecRoundTripped == phase = "decoded" /\ conforming /\ typeName = OriginType

\* C28: Codec.DecodeStruct(Codec.EncodeStruct(v), type name of v) succeeds
\* and returns a value equal to v, for every type both methods support.
CodecRoundTrip ==
  CodecRoundTripped => (dec.err = "ok" /\ dec.val = OriginMsg)

\* a length prefix of a schema-typed string or identifier (wire length =
\* length + 2) that is below 2
BelowTwo(l) == l.less = 2 /\ l.claimed \in {U64(0), U64(1)}

\* the wire length minus 2 as a uint16 that wrapped around
WrappedLength == {65534, 65535}

\* C29: when a schema-typed field carries a wire length below 2, DecodeStruct
\* fails with an error and the decoder asks for no field of 65 534 or
\* 65 535 bytes: the subtraction of 2 does not wrap around.
ShortWireLengthRejected ==
  (DecodeStructReturned /\ \E k \in DOMAIN dec.lens : BelowTwo(dec.lens[k]))
    => /\ dec.err # "ok"
       /\ \A a \in DOMAIN dec.allocs : dec.allocs[a].n \notin WrappedLength

\* the unsigned-var g is a uint16
FitsUint16(g) == g[3] < 4 /\ \A i \in 4..10 : g[i] = 0

\* C30: a decoded integer is never silently truncated: when the varint of a
\* 16-bit length field encodes 65 536 or more, DecodeStruct fails.
NoSilentTruncation ==
  DecodeStructReturned
    => \A k \in DOMAIN dec.lens :
         ~FitsUint16(dec.lens[k].claimed) => dec.err # "ok"

\* ------------------------------------------------------ bridge properties
\* the string at pointer p, as a C caller reads it: only an allocation that
\* has not been freed has one
Valid(p) == p # 0 /\ lib.heap[p].live

\* C25: the pointer a thread got from v2g_last_error stays allocated, and
\* holds the message of that thread's own most recent error, until the
\* thread's next API call or a shutdown, whatever other threads call.
LastErrorOfCallingThread ==
  \A t \in Threads :
    (thr[t].errHeld /\ thr[t].err # 0 /\ thr[t].own # "")
      => (Valid(thr[t].err) /\ lib.heap[thr[t].err].text = thr[t].own)

\* C26: every pointer v2g_version has returned is non-NULL and is still
\* allocated, after any sequence of API calls.
VersionPointerForLife ==
  \A t \in Threads : thr[t].verHeld => Valid(thr[t].ver)

====
